---- MODULE Spec2Model ----
(***************************************************************************)
(* Model of rsc/github's issuedb synchronizer (src/issuedb/main.go):       *)
(* doSync, downloadByDate, syncIssueEvents, syncIssueEventsByIssue and     *)
(* downloadPages, over a durable sqlite store with explicit transactions.  *)
(* The file holds two copies of the program; legacy = TRUE selects the     *)
(* second one (src/issuedb/main.go from line 693 on).                      *)
(* Timestamps (updated_at strings) and event ids are naturals; 0 stands    *)
(* for the empty string / the missing id.                                  *)
(***************************************************************************)
EXTENDS Integers, Sequences, FiniteSets, TLC

\* ---------------------------------------------------------------- bounds
MaxURL == 2
MaxTime == 2
MaxPageLen == 2
MaxPages == 2
MaxRuns == 2
MaxRateLimit == 1
MaxETag == 2
SrvPageSize == 1
MaxPayloads == 2

\* nfail < 2 in downloadPages
MaxFail == 2

\* ---------------------------------------------------------------- data
Comments == "/issues/comments"
Issues == "/issues"
Events == "/issues/events"

URLs == 1..MaxURL

\* A payload (json.RawMessage): its url field and its updated_at (date
\* feeds) or id (event feeds) field n; n = 0 is a payload without the field.
ValidItems == [url : URLs, n : 1..MaxTime]

Items == ValidItems \cup {[url |-> 1, n |-> 0]}

Bodies == UNION {[1..k -> Items] : k \in 0..MaxPageLen}

\* The issue number a payload carries (meta.Number, the tail of
\* meta.IssueURL, meta.Issue.Number): payloads are numbered by their url.
Number(it) == it.url

Row(it, api, issue) == [URL |-> it.url, Type |-> api, Issue |-> issue, JSON |-> it]

Proj0 == [EventETag |-> 0, EventID |-> 0, IssueDate |-> 0, CommentDate |-> 0]

NoTx == [open |-> FALSE, raw |-> {}, proj |-> Proj0]

NoResp == [next |-> FALSE, etag |-> 0]

NoSnap == [set |-> FALSE, raw |-> {}, proj |-> Proj0]

Max(a, b) == IF a >= b THEN a ELSE b

Key(it) == it.n * (MaxURL + 1) + it.url

RECURSIVE AscSeq(_)
AscSeq(S) ==
  IF S = {} THEN <<>>
  ELSE LET m == CHOOSE x \in S : \A y \in S : Key(x) <= Key(y)
       IN <<m>> \o AscSeq(S \ {m})

Reverse(s) == [k \in 1..Len(s) |-> s[Len(s) + 1 - k]]

Count(s, v) == Cardinality({k \in 1..Len(s) : s[k] = v})

\* ---------------------------------------------------------------- state
VARIABLES
  dbRaw,      \* durable RawJSON table (set of rows)
  dbProj,     \* durable ProjectSync row
  proj,       \* the process's in-memory ProjectSync
  tx,         \* the open transaction: its view of both tables
  pc,         \* position of the process
  result,     \* how the last process ended / "running"
  runs,       \* sync commands started so far
  resync,     \* the command is resync
  stage,      \* api of the feed being synced
  id,         \* syncIssueEvents' id argument
  ids,        \* syncIssueEventsByIssue: issues still to walk
  since,      \* since parameter of the request URL
  etagSent,   \* If-None-Match of the requests
  page,       \* downloadPages: which page url names
  nfail,      \* downloadPages: nfail
  all,        \* callback: the page's messages
  i,          \* callback: index of the next message
  resp,       \* callback: Link and Etag of the response
  last,       \* downloadByDate callback: last
  firstID,    \* syncIssueEvents: firstID
  firstETag,  \* syncIssueEvents: firstETag
  legacy,     \* the program is the file's second copy
  srv,        \* the remote service
  sent,       \* payloads the service has sent
  hist,       \* history: statuses answered to the current page's request
  ncall,      \* history: callback invocations for the current page
  since0,     \* history: stored checkpoint when downloadByDate was called
  sinceC,     \* history: last of the last page committed in this call
  maxSeen,    \* history: greatest updated_at fetched in this call
  seen,       \* history: urls fetched in this call
  snap,       \* history: the store when the first sync ended successfully
  projects,   \* main: the projects read from the database, in loop order
  cur,        \* main: index of the project doSync is running for
  synced,     \* history: projects whose doSync has returned
  wpc,        \* position of the issue command in writeIssue / bulkWriteIssue
  origin,     \* history: the issues the text was rendered from
  old,        \* writeIssue: old
  updated,    \* writeIssue: updated, the edited text
  isBulk,     \* writeIssue: isBulk
  edit,       \* writeIssue: edit
  addLabels,  \* writeIssue: addLabels
  removeLabels, \* writeIssue: removeLabels
  errbuf,     \* writeIssue: errbuf
  comment,    \* writeIssue: comment
  rmi,        \* writeIssue: position in the loop over removeLabels
  calls,      \* history: the remote mutations issued, in order
  werr,       \* the err the last writeIssue returned is not nil
  bulkIDs,    \* bulkWriteIssue: ids
  index,      \* bulkWriteIssue: index
  bfailed,    \* bulkWriteIssue: failed
  bulkErr,    \* bulkWriteIssue: the err returned
  did,        \* writeIssue: did
  rate,       \* writeIssue: rate; bulkWriteIssue: rate
  dbHist,     \* durable History table (set of rows)
  rpc,        \* position of the refill command
  rlast,      \* refill: last
  out,        \* history: the History rows the latest refill inserted, in order
  prev,       \* history: the refills completed so far (rows inserted, RawJSON, History)
  rcount,     \* history: commands run against the store so far
  remote,     \* the issues as the service holds them, by number
  issueCache, \* issueCache.m: the cached issue of a number, or none
  gql,        \* Client.graphQL: the call in progress
  wins,       \* acme: the windows created by awin.new, in order
  all_m,      \* acme: all.m, the registered windows (each under its title)
  numwin,     \* acme: all.numwin
  exited,     \* acme: os.Exit has been called
  shown,      \* history: the latest awin.show that found a window
  blinkers,   \* blinker: the goroutines started, in order
  todo,       \* load / put: the blinker and Ctl steps still to run
  spc,        \* stop: "sent" between its send and its receive
  wdirty,     \* the acme window is marked dirty
  ticks,      \* history: ticks delivered so far
  bpath,      \* history: the command that is run
  listing,    \* printIssue: the comments and events the service holds, the zone
  ppc,        \* printIssue: position
  ppage,      \* printIssue: page
  output,     \* printIssue: output
  printed     \* printIssue: the blocks written to w, in order

syncVars == <<dbRaw, dbProj, proj, tx, pc, result, runs, resync, stage, id, ids,
              since, etagSent, page, nfail, all, i, resp, last, firstID,
              firstETag, legacy, srv, sent, hist, ncall, since0, sinceC, maxSeen, seen, snap>>

mainVars == <<projects, cur, synced>>

editVars == <<wpc, origin, old, updated, isBulk, edit, addLabels, removeLabels,
              errbuf, comment, rmi, calls, werr, bulkIDs, index, bfailed, bulkErr,
              did, rate>>

refillVars == <<dbHist, rpc, rlast, out, prev, rcount>>

cacheVars == <<remote, issueCache>>

\* The GraphQL client, the acme windows and the issue printer.
acmeVars == <<wins, all_m, numwin, exited, shown>>

blinkVars == <<blinkers, todo, spc, wdirty, ticks, bpath>>

printVars == <<listing, ppc, ppage, output, printed>>

otherVars == <<gql, acmeVars, blinkVars, printVars>>

\* What the synchronizer does not touch.
restVars == <<mainVars, editVars, refillVars, cacheVars, otherVars>>

vars == <<syncVars, restVars>>

durable == <<dbRaw, dbProj>>

locals == <<since, etagSent, page, nfail, all, i, resp, last, firstID, firstETag>>

history == <<hist, ncall, since0, sinceC, maxSeen, seen>>

\* ---------------------------------------------------------------- server
\* The remote service either answers anything (srv.fixed = FALSE) or serves
\* an unchanging data set honestly (srv.fixed = TRUE), with the since
\* parameter read inclusively or exclusively (srv.incl).
Feeds == {Comments, Issues, Events}

Reply(s, rl, bad, b, nx, e) ==
  [status |-> s, rl |-> rl, bad |-> bad, body |-> b, next |-> nx, etag |-> e]

FreeReplies(api, pg, h, room) ==
  {Reply(s, FALSE, FALSE, <<>>, FALSE, 0) : s \in {304, 403, 500, 503}}
  \cup {Reply(403, TRUE, FALSE, <<>>, FALSE, 0) :
          x \in {k \in {1} : Count(h, <<403, TRUE>>) < MaxRateLimit}}
  \cup {Reply(200, FALSE, TRUE, <<>>, FALSE, 0)}
  \cup {Reply(200, FALSE, FALSE, b, nx, e) :
          b \in {c \in Bodies : Len(c) <= room},
          nx \in IF pg < MaxPages THEN BOOLEAN ELSE {FALSE},
          e \in IF api = Events THEN 1..MaxETag ELSE {0}}

FixedETag == MaxETag

FixedList(api, sinceV) ==
  IF api = Events
  THEN Reverse(AscSeq(srv.data[Events]))
  ELSE AscSeq({it \in srv.data[api] :
                 IF srv.incl THEN it.n >= sinceV ELSE it.n > sinceV})

FixedReplies(api, sinceV, etagV, pg) ==
  IF api = Events /\ etagV = FixedETag
  THEN {Reply(304, FALSE, FALSE, <<>>, FALSE, 0)}
  ELSE LET l == FixedList(api, sinceV)
           lo == (pg - 1) * SrvPageSize + 1
           hi == IF pg * SrvPageSize < Len(l) THEN pg * SrvPageSize ELSE Len(l)
       IN {Reply(200, FALSE, FALSE, SubSeq(l, lo, hi), pg * SrvPageSize < Len(l),
                 IF api = Events THEN FixedETag ELSE 0)}

Replies ==
  IF srv.fixed THEN FixedReplies(stage, since, etagSent, page)
  ELSE FreeReplies(stage, page, hist, MaxPayloads - sent)

\* The data sets an honest server may hold: every url in at most one feed.
Placements == {<<"none", 0>>} \cup (Feeds \X (1..MaxTime))

FixedData ==
  {[f \in Feeds |-> {[url |-> u, n |-> a[u][2]] : u \in {v \in URLs : a[v][1] = f}}] :
     a \in [URLs -> Placements]}

NoData == [f \in Feeds |-> {}]

\* ---------------------------------------------------------------- storage
\* Mutant of Insert: a plain insert that keeps the stored row as well.
InsertPlain(table, row) == table \cup {row}

\* storage.Insert on a table keyed by URL (dbstore issues "insert or
\* replace"): the row with the same key, if any, is replaced.
Insert(table, row) == {r \in table : r.URL # row.URL} \cup {row}

\* storage.Insert on the second copy's table, keyed by RowID: every insert
\* adds a row under the next rowid.
InsertRowID(table, it, api) ==
  table \cup {[RowID |-> Cardinality(table) + 1, Type |-> api, JSON |-> it]}

\* raw.URL = meta.URL, ..., storage.Insert(tx, &raw)
Store(table, it, api, issue) ==
  IF legacy THEN InsertRowID(table, it, api) ELSE Insert(table, Row(it, api, issue))

\* storage.Write(tx, proj, columns...): update the named columns.
Write(stored, p, cols) ==
  [c \in DOMAIN stored |-> IF c \in cols THEN p[c] ELSE stored[c]]

SinceName(api) == IF api = Issues THEN "IssueDate" ELSE "CommentDate"

IsDate(api) == api \in {Comments, Issues}

\* ---------------------------------------------------------------- process
\* The main loop over several projects and the issue command are modelled
\* by specifications of their own (below); here they are at rest.
MainIdle == projects = <<>> /\ cur = 0 /\ synced = {}

\* No issue window is open: nothing is cached.
CacheIdle == remote = <<>> /\ issueCache = <<>>

\* No refill has run: the History table is empty.
RefillIdle ==
  /\ dbHist = {} /\ rpc = "idle" /\ rlast = 0 /\ out = <<>> /\ prev = <<>> /\ rcount = 0

\* No GraphQL call has been made.
GqlIdle == gql = [pc |-> "idle"]

\* The acme mode has not been entered.
NoShow == [by |-> 0, found |-> 0, ctl |-> 0]

AcmeIdle == wins = <<>> /\ all_m = {} /\ numwin = 0 /\ exited = FALSE /\ shown = NoShow

\* No load or put is running.
BlinkIdle ==
  blinkers = <<>> /\ todo = <<>> /\ spc = "" /\ wdirty = FALSE /\ ticks = 0 /\ bpath = ""

\* No issue is being printed.
PrintIdle ==
  listing = <<>> /\ ppc = "idle" /\ ppage = 0 /\ output = <<>> /\ printed = <<>>

OtherIdle == GqlIdle /\ AcmeIdle /\ BlinkIdle /\ PrintIdle

EditIdle ==
  /\ wpc = "idle"
  /\ origin = <<>> /\ old = <<>> /\ updated = <<>> /\ isBulk = FALSE
  /\ edit = <<>> /\ addLabels = <<>> /\ removeLabels = <<>> /\ errbuf = <<>>
  /\ comment = <<>> /\ rmi = 0 /\ calls = <<>> /\ werr = FALSE
  /\ bulkIDs = <<>> /\ index = 0 /\ bfailed = FALSE /\ bulkErr = ""
  /\ did = <<>> /\ rate = [set |-> FALSE, Limit |-> 0, Remaining |-> 0]

Init ==
  /\ dbRaw = {}
  /\ dbProj = Proj0
  /\ proj = Proj0
  /\ tx = NoTx
  /\ pc = "idle"
  /\ result = "none"
  /\ runs = 0
  /\ resync = FALSE
  /\ stage = ""
  /\ id = 0
  /\ ids = <<>>
  /\ since = 0 /\ etagSent = 0 /\ page = 0 /\ nfail = 0
  /\ all = <<>> /\ i = 0 /\ resp = NoResp /\ last = 0
  /\ firstID = 0 /\ firstETag = 0
  /\ legacy = FALSE
  /\ srv \in {[fixed |-> FALSE, incl |-> TRUE, data |-> NoData]}
             \cup [fixed : {TRUE}, incl : BOOLEAN, data : FixedData]
  /\ sent = 0
  /\ hist = <<>> /\ ncall = 0 /\ since0 = 0 /\ sinceC = 0 /\ maxSeen = 0 /\ seen = {}
  /\ snap = NoSnap
  /\ MainIdle
  /\ EditIdle
  /\ RefillIdle
  /\ CacheIdle
  /\ OtherIdle

ResetLocals ==
  /\ since' = 0 /\ etagSent' = 0 /\ page' = 0 /\ nfail' = 0
  /\ all' = <<>> /\ i' = 0 /\ resp' = NoResp /\ last' = 0
  /\ firstID' = 0 /\ firstETag' = 0

\* The process ends: log.Fatal (os.Exit), a kill, or main returning. An open
\* transaction is never committed.
Ended(res) ==
  /\ pc' = "idle"
  /\ result' = res
  /\ tx' = NoTx
  /\ id' = 0
  /\ ids' = <<>>
  /\ ResetLocals

\* main, case "sync", "resync": read the project, doSync.
StartSync(rs) ==
  /\ UNCHANGED restVars
  /\ pc = "idle"
  /\ runs < MaxRuns
  /\ (srv.fixed \/ legacy) => ~rs
  /\ runs' = runs + 1
  /\ resync' = rs
  /\ proj' = dbProj
  /\ result' = "running"
  /\ stage' = Comments
  /\ id' = 0
  /\ ids' = <<>>
  /\ pc' = "start"
  /\ tx' = NoTx
  /\ ResetLocals
  /\ hist' = <<>> /\ ncall' = 0 /\ since0' = 0 /\ sinceC' = 0 /\ maxSeen' = 0 /\ seen' = {}
  /\ UNCHANGED <<dbRaw, dbProj, legacy, srv, sent, snap>>

\* syncIssueEventsByIssue's query: the issue numbers of the stored /issues
\* rows, by URL.
IssueIDs(raw) ==
  LET S == {r.URL : r \in {q \in raw : q.Type = Issues}}
      f[T \in SUBSET S] ==
        IF T = {} THEN <<>>
        ELSE LET m == CHOOSE x \in T : \A y \in T : x <= y
             IN <<m>> \o f[T \ {m}]
  IN f[S]

\* main returns after doSync.
Finish(raw, pj) ==
  /\ Ended("ok")
  /\ stage' = stage
  /\ snap' = IF srv.fixed /\ ~snap.set
             THEN [set |-> TRUE, raw |-> raw, proj |-> pj] ELSE snap

\* doSync after syncIssueEvents(proj, 0), and syncIssueEventsByIssue's loop.
AfterEvents(raw, pj) ==
  LET rest == IF id = 0 THEN (IF resync THEN IssueIDs(raw) ELSE <<>>) ELSE ids
  IN IF rest = <<>>
     THEN Finish(raw, pj)
     ELSE /\ pc' = "start"
          /\ id' = Head(rest)
          /\ ids' = Tail(rest)
          /\ tx' = NoTx
          /\ ResetLocals
          /\ UNCHANGED <<result, stage, snap>>

\* doSync after a downloadByDate call.
AfterDate ==
  /\ pc' = "start"
  /\ stage' = IF stage = Comments THEN Issues ELSE Events
  /\ tx' = NoTx
  /\ ResetLocals
  /\ hist' = <<>> /\ ncall' = 0
  /\ since0' = 0 /\ sinceC' = 0 /\ maxSeen' = 0 /\ seen' = {}
  /\ UNCHANGED <<result, id, ids, snap>>

\* downloadByDate up to the first request; syncIssueEvents up to the first
\* request (db.Begin).
Begin ==
  /\ UNCHANGED restVars
  /\ pc = "start"
  /\ pc' = "request"
  /\ page' = 1
  /\ nfail' = 0
  /\ hist' = <<>>
  /\ ncall' = 0
  /\ IF IsDate(stage)
     THEN /\ since' = proj[SinceName(stage)]
          /\ etagSent' = 0
          /\ since0' = dbProj[SinceName(stage)]
          /\ sinceC' = dbProj[SinceName(stage)]
          /\ maxSeen' = 0
          /\ seen' = {}
          /\ UNCHANGED tx
     ELSE /\ since' = 0
          /\ etagSent' = proj.EventETag
          /\ tx' = [open |-> TRUE, raw |-> dbRaw, proj |-> dbProj]
          /\ UNCHANGED <<since0, sinceC, maxSeen, seen>>
  /\ UNCHANGED <<dbRaw, dbProj, proj, result, runs, resync, stage, id, ids,
                 all, i, resp, last, firstID, firstETag, legacy, srv, sent, snap>>

\* log.Fatal
Fatal ==
  /\ Ended("fatal")
  /\ UNCHANGED <<dbRaw, dbProj, proj, runs, resync, stage, legacy, srv, sent,
                 ncall, since0, sinceC, maxSeen, seen, snap>>

\* Mutant of RateLimited: the rate-limited 403 is returned as an error.
RateLimitedAsError ==
  /\ UNCHANGED restVars
  /\ pc = "request"
  /\ \E r \in Replies :
       /\ r.status = 403 /\ r.rl
       /\ hist' = Append(hist, <<r.status, r.rl>>)
  /\ Fatal

\* downloadPages: 403 with X-Ratelimit-Remaining 0 and a reset time: sleep,
\* goto again.
RateLimited ==
  /\ UNCHANGED restVars
  /\ pc = "request"
  /\ ~legacy
  /\ \E r \in Replies :
       /\ r.status = 403 /\ r.rl
       /\ hist' = Append(hist, <<r.status, r.rl>>)
  /\ UNCHANGED <<dbRaw, dbProj, proj, tx, pc, result, runs, resync, stage, id,
                 ids, locals, legacy, srv, sent, ncall, since0, sinceC, maxSeen, seen, snap>>

\* downloadPages: 500 with nfail < 2 after nfail++: sleep, goto again.
Retry500 ==
  /\ UNCHANGED restVars
  /\ pc = "request"
  /\ \E r \in Replies :
       /\ r.status = 500
       /\ nfail + 1 < MaxFail
       /\ hist' = Append(hist, <<r.status, r.rl>>)
  /\ nfail' = nfail + 1
  /\ UNCHANGED <<dbRaw, dbProj, proj, tx, pc, result, runs, resync, stage, id,
                 ids, since, etagSent, page, all, i, resp, last, firstID,
                 firstETag, legacy, srv, sent, ncall, since0, sinceC, maxSeen, seen, snap>>

\* A reply downloadPages returns as an error.
IsError(r) ==
  \/ r.status # 200 /\ ~(~legacy /\ r.status = 403 /\ r.rl)
                     /\ ~(r.status = 500 /\ nfail + 1 < MaxFail)
  \/ r.status = 200 /\ r.bad

\* syncIssueEvents: strings.Contains(err.Error(), "304 Not Modified")
IsNotModified(r) == r.status = 304

\* downloadPages returns an error and the caller calls log.Fatal.
RequestFatal ==
  /\ UNCHANGED restVars
  /\ pc = "request"
  /\ \E r \in Replies :
       /\ IsError(r)
       /\ IsDate(stage) \/ legacy \/ ~IsNotModified(r)
       /\ hist' = Append(hist, <<r.status, r.rl>>)
  /\ Fatal

\* syncIssueEvents: downloadPages returned the 304 error: return (the
\* deferred tx.Rollback runs), and doSync goes on.
NotModified ==
  /\ UNCHANGED restVars
  /\ pc = "request"
  /\ ~legacy
  /\ ~IsDate(stage)
  /\ \E r \in Replies :
       /\ IsError(r)
       /\ IsNotModified(r)
       /\ hist' = Append(hist, <<r.status, r.rl>>)
  /\ AfterEvents(dbRaw, dbProj)
  /\ UNCHANGED <<dbRaw, dbProj, proj, runs, resync, legacy, srv, sent,
                 ncall, since0, sinceC, maxSeen, seen>>

\* downloadPages: a 200 reply that parses: do(resp, all) is called; in
\* downloadByDate the callback begins its transaction.
RequestOK ==
  /\ UNCHANGED restVars
  /\ pc = "request"
  /\ \E r \in Replies :
       /\ r.status = 200 /\ ~r.bad
       /\ hist' = Append(hist, <<r.status, r.rl>>)
       /\ all' = r.body
       /\ resp' = [next |-> r.next, etag |-> r.etag]
       /\ sent' = IF srv.fixed THEN sent ELSE sent + Len(r.body)
  /\ pc' = "items"
  /\ i' = 1
  /\ last' = 0
  /\ ncall' = ncall + 1
  /\ tx' = IF IsDate(stage) THEN [open |-> TRUE, raw |-> dbRaw, proj |-> dbProj] ELSE tx
  /\ UNCHANGED <<dbRaw, dbProj, proj, result, runs, resync, stage, id, ids,
                 since, etagSent, page, nfail, firstID, firstETag, legacy, srv,
                 since0, sinceC, maxSeen, seen, snap>>

\* downloadPages: url = findNext(Link) names another page.
NextPage ==
  /\ pc' = "request"
  /\ page' = page + 1
  /\ all' = <<>> /\ i' = 0 /\ resp' = NoResp /\ last' = 0
  /\ hist' = <<>>
  /\ ncall' = 0
  /\ UNCHANGED <<since, etagSent, nfail, firstID, firstETag>>

\* A message without updated_at (date feeds) or without id (event feeds):
\* the callback returns an error, downloadPages returns it, log.Fatal.
BadItem ==
  /\ UNCHANGED restVars
  /\ pc = "items"
  /\ i <= Len(all)
  /\ all[i].n = 0
  /\ Fatal
  /\ UNCHANGED hist

\* Mutant of DateItem: the row is inserted through db, outside the
\* transaction.
DateItemAutocommit ==
  /\ UNCHANGED restVars
  /\ pc = "items"
  /\ IsDate(stage)
  /\ i <= Len(all)
  /\ all[i].n # 0
  /\ last' = all[i].n
  /\ dbRaw' = Insert(dbRaw, Row(all[i], stage, Number(all[i])))
  /\ tx' = [tx EXCEPT !.raw = Insert(@, Row(all[i], stage, Number(all[i])))]
  /\ i' = i + 1
  /\ maxSeen' = Max(maxSeen, all[i].n)
  /\ seen' = seen \cup {all[i].url}
  /\ UNCHANGED <<dbProj, proj, pc, result, runs, resync, stage, id, ids,
                 since, etagSent, page, nfail, all, resp, firstID, firstETag,
                 legacy, srv, sent, hist, ncall, since0, sinceC, snap>>

\* downloadByDate's callback, one message: last = meta.Updated, insert.
DateItem ==
  /\ UNCHANGED restVars
  /\ pc = "items"
  /\ IsDate(stage)
  /\ i <= Len(all)
  /\ all[i].n # 0
  /\ last' = all[i].n
  /\ tx' = [tx EXCEPT !.raw = Store(@, all[i], stage, Number(all[i]))]
  /\ i' = i + 1
  /\ maxSeen' = Max(maxSeen, all[i].n)
  /\ seen' = seen \cup {all[i].url}
  /\ UNCHANGED <<dbRaw, dbProj, proj, pc, result, runs, resync, stage, id, ids,
                 since, etagSent, page, nfail, all, resp, firstID, firstETag,
                 legacy, srv, sent, hist, ncall, since0, sinceC, snap>>

\* Mutant of DatePageEnd: the checkpoint is written through db, outside the
\* transaction.
DatePageEndAutocommit ==
  /\ UNCHANGED restVars
  /\ pc = "items"
  /\ IsDate(stage)
  /\ i > Len(all)
  /\ proj' = [proj EXCEPT ![SinceName(stage)] = last]
  /\ dbProj' = Write(dbProj, proj', {SinceName(stage)})
  /\ tx' = [tx EXCEPT !.proj = Write(@, proj', {SinceName(stage)})]
  /\ pc' = "commit"
  /\ UNCHANGED <<dbRaw, result, runs, resync, stage, id, ids, locals,
                 legacy, srv, sent, history, snap>>

\* downloadByDate's callback after the loop: *since = last, storage.Write.
DatePageEnd ==
  /\ UNCHANGED restVars
  /\ pc = "items"
  /\ IsDate(stage)
  /\ i > Len(all)
  /\ proj' = [proj EXCEPT ![SinceName(stage)] = last]
  /\ tx' = [tx EXCEPT !.proj = Write(@, proj', {SinceName(stage)})]
  /\ pc' = "commit"
  /\ UNCHANGED <<dbRaw, dbProj, result, runs, resync, stage, id, ids, locals,
                 legacy, srv, sent, history, snap>>

\* Mutant of EventItem: the high-water test is left out, every message is
\* inserted.
EventItemNoStop ==
  /\ UNCHANGED restVars
  /\ pc = "items"
  /\ ~IsDate(stage)
  /\ i <= Len(all)
  /\ all[i].n # 0
  /\ firstID' = IF firstID = 0 THEN all[i].n ELSE firstID
  /\ firstETag' = IF firstID = 0 THEN resp.etag ELSE firstETag
  /\ tx' = [tx EXCEPT !.raw =
              Store(@, all[i], Events, IF id > 0 THEN id ELSE Number(all[i]))]
  /\ i' = i + 1
  /\ UNCHANGED <<dbRaw, dbProj, proj, pc, result, runs, resync, stage, id, ids,
                 since, etagSent, page, nfail, all, resp, last, legacy, srv, sent, history, snap>>

\* Mutant of EventItem: the high-water test is applied to a single issue's
\* walk as well.
EventItemAnyID ==
  /\ UNCHANGED restVars
  /\ pc = "items"
  /\ ~IsDate(stage)
  /\ i <= Len(all)
  /\ all[i].n # 0
  /\ firstID' = IF firstID = 0 THEN all[i].n ELSE firstID
  /\ firstETag' = IF firstID = 0 THEN resp.etag ELSE firstETag
  /\ IF proj.EventID # 0 /\ all[i].n <= proj.EventID
     THEN /\ pc' = "evfinish"
          /\ UNCHANGED <<tx, i>>
     ELSE /\ tx' = [tx EXCEPT !.raw =
                      Store(@, all[i], Events, IF id > 0 THEN id ELSE Number(all[i]))]
          /\ i' = i + 1
          /\ UNCHANGED pc
  /\ UNCHANGED <<dbRaw, dbProj, proj, result, runs, resync, stage, id, ids,
                 since, etagSent, page, nfail, all, resp, last, legacy, srv, sent, history, snap>>

\* syncIssueEvents' callback, one message.
EventItem ==
  /\ UNCHANGED restVars
  /\ pc = "items"
  /\ ~IsDate(stage)
  /\ i <= Len(all)
  /\ all[i].n # 0
  /\ firstID' = IF firstID = 0 THEN all[i].n ELSE firstID
  /\ firstETag' = IF firstID = 0 THEN resp.etag ELSE firstETag
  /\ IF id = 0 /\ proj.EventID # 0 /\ all[i].n <= proj.EventID
     THEN /\ pc' = "evfinish"
          /\ UNCHANGED <<tx, i>>
     ELSE /\ tx' = [tx EXCEPT !.raw =
                      Store(@, all[i], Events, IF id > 0 THEN id ELSE Number(all[i]))]
          /\ i' = i + 1
          /\ UNCHANGED pc
  /\ UNCHANGED <<dbRaw, dbProj, proj, result, runs, resync, stage, id, ids,
                 since, etagSent, page, nfail, all, resp, last, legacy, srv, sent, history, snap>>

\* syncIssueEvents' callback returns nil: the next page, or downloadPages
\* returns nil.
EventPageEnd ==
  /\ UNCHANGED restVars
  /\ pc = "items"
  /\ ~IsDate(stage)
  /\ i > Len(all)
  /\ IF resp.next
     THEN NextPage
     ELSE /\ pc' = "evfinish"
          /\ UNCHANGED <<locals, hist, ncall>>
  /\ UNCHANGED <<dbRaw, dbProj, proj, tx, result, runs, resync, stage, id, ids,
                 legacy, srv, sent, since0, sinceC, maxSeen, seen, snap>>

\* syncIssueEvents after downloadPages: record the high-water mark.
EvFinish ==
  /\ UNCHANGED restVars
  /\ pc = "evfinish"
  /\ IF id = 0 /\ firstID # 0
     THEN /\ proj' = [proj EXCEPT !.EventID = firstID, !.EventETag = firstETag]
          /\ tx' = [tx EXCEPT !.proj = Write(@, proj', {"EventID", "EventETag"})]
     ELSE UNCHANGED <<proj, tx>>
  /\ pc' = "commit"
  /\ UNCHANGED <<dbRaw, dbProj, result, runs, resync, stage, id, ids, locals,
                 legacy, srv, sent, history, snap>>

\* tx.Commit, and what follows it in downloadPages and doSync.
Commit ==
  /\ UNCHANGED restVars
  /\ pc = "commit"
  /\ dbRaw' = tx.raw
  /\ dbProj' = tx.proj
  /\ IF IsDate(stage)
     THEN IF resp.next
          THEN /\ NextPage
               /\ tx' = NoTx
               /\ sinceC' = last
               /\ UNCHANGED <<result, stage, id, ids, snap, since0, maxSeen, seen>>
          ELSE AfterDate
     ELSE /\ AfterEvents(tx.raw, tx.proj)
          /\ hist' = <<>> /\ ncall' = 0
          /\ UNCHANGED <<sinceC, since0, maxSeen, seen>>
  /\ UNCHANGED <<proj, runs, resync, legacy, srv, sent>>

\* db.Begin, storage.Insert, storage.Write or tx.Commit returns an error:
\* log.Fatal.
DbFail ==
  /\ UNCHANGED restVars
  /\ \/ pc = "start" /\ ~IsDate(stage)
     \/ pc \in {"items", "evfinish", "commit"}
  /\ Fatal
  /\ UNCHANGED hist

\* The process is killed.
Kill ==
  /\ UNCHANGED restVars
  /\ pc # "idle"
  /\ Ended("killed")
  /\ UNCHANGED <<dbRaw, dbProj, proj, runs, resync, stage, legacy, srv, sent, history, snap>>

Next ==
  \/ \E rs \in BOOLEAN : StartSync(rs)
  \/ Begin
  \/ RateLimited
  \/ Retry500
  \/ RequestFatal
  \/ NotModified
  \/ RequestOK
  \/ BadItem
  \/ DateItem
  \/ DatePageEnd
  \/ EventItem
  \/ EventPageEnd
  \/ EvFinish
  \/ Commit
  \/ DbFail
  \/ Kill

Spec == Init /\ [][Next]_vars

\* The second copy of the program, against a service that answers anything.
InitLegacy ==
  /\ dbRaw = {}
  /\ dbProj = Proj0
  /\ proj = Proj0
  /\ tx = NoTx
  /\ pc = "idle"
  /\ result = "none"
  /\ runs = 0
  /\ resync = FALSE
  /\ stage = ""
  /\ id = 0
  /\ ids = <<>>
  /\ since = 0 /\ etagSent = 0 /\ page = 0 /\ nfail = 0
  /\ all = <<>> /\ i = 0 /\ resp = NoResp /\ last = 0
  /\ firstID = 0 /\ firstETag = 0
  /\ legacy = TRUE
  /\ srv = [fixed |-> FALSE, incl |-> TRUE, data |-> NoData]
  /\ sent = 0
  /\ hist = <<>> /\ ncall = 0 /\ since0 = 0 /\ sinceC = 0 /\ maxSeen = 0 /\ seen = {}
  /\ snap = NoSnap
  /\ MainIdle
  /\ EditIdle
  /\ RefillIdle
  /\ CacheIdle
  /\ OtherIdle

NextLegacy ==
  \/ StartSync(FALSE)
  \/ Begin
  \/ Retry500
  \/ RequestFatal
  \/ RequestOK
  \/ BadItem
  \/ DateItem
  \/ DatePageEnd
  \/ EventItem
  \/ EventPageEnd
  \/ EvFinish
  \/ Commit
  \/ DbFail
  \/ Kill

SpecLegacy == InitLegacy /\ [][NextLegacy]_vars

\* ---------------------------------------------------------------- claims
RawURLs(raw) == {r.URL : r \in raw}

LastOf(msgs) == IF msgs = <<>> THEN 0 ELSE msgs[Len(msgs)].n

RECURSIVE ApplyPage(_, _, _)
ApplyPage(raw, msgs, api) ==
  IF msgs = <<>> THEN raw
  ELSE ApplyPage({r \in raw : r.URL # Head(msgs).url}
                   \cup {Row(Head(msgs), api, Number(Head(msgs)))},
                 Tail(msgs), api)

Is5xx(e) == e[1] \in {500, 503}

\* The step stores one message's row (DateItem, or EventItem past the
\* high-water test).
InsertStep == pc = "items" /\ pc' = "items" /\ i' = i + 1

NewRow ==
  IF IsDate(stage) THEN Row(all[i], stage, Number(all[i]))
  ELSE Row(all[i], Events, IF id > 0 THEN id ELSE Number(all[i]))

\* C1: every change downloadByDate commits to IssueDate / CommentDate leaves
\* it greater than or equal to the value stored before.
C1_CheckpointMonotone ==
  [][/\ dbProj'.IssueDate >= dbProj.IssueDate
     /\ dbProj'.CommentDate >= dbProj.CommentDate]_vars

\* C2: rows and checkpoint are atomic: whenever the durable store changes
\* during a date-ordered feed, by any step (commit, error, kill), the change
\* is one whole page: every row of the page and the page's checkpoint.
C2_PageAtomic ==
  [][(IsDate(stage) /\ <<dbRaw, dbProj>>' # <<dbRaw, dbProj>>) =>
       /\ dbRaw' = ApplyPage(dbRaw, all, stage)
       /\ dbProj' = [dbProj EXCEPT ![SinceName(stage)] = LastOf(all)]]_vars

C2_Witness ==
  /\ result = "fatal"
  /\ IsDate(stage)
  /\ page = 0
  /\ sinceC # since0
  /\ Cardinality(dbRaw) = 2

\* C3 as stated: a downloadByDate call that ends with an error leaves the
\* stored checkpoint at its value from before the call.
C3_FailedRunKeepsCheckpoint ==
  (result = "fatal" /\ IsDate(stage)) => dbProj[SinceName(stage)] = since0

\* C3 amended: a downloadByDate call that ends with an error leaves the
\* stored checkpoint at the value written by the last page that committed
\* (the value from before the call when no page committed).
C3_FailedPageKeepsCheckpoint ==
  (result = "fatal" /\ IsDate(stage)) => dbProj[SinceName(stage)] = sinceC

C3_Witness ==
  /\ result = "fatal"
  /\ IsDate(stage)
  /\ sinceC # since0
  /\ dbProj[SinceName(stage)] = sinceC

\* C4: with unchanged remote data, a second successful sync adds no row
\* and leaves the four checkpoints as the first sync left them.
C4_SyncIdempotent ==
  (srv.fixed /\ snap.set /\ result = "ok") =>
    /\ RawURLs(dbRaw) = RawURLs(snap.raw)
    /\ dbProj = snap.proj

\* C5: when a downloadByDate call that fetched at least one item returns
\* successfully, the stored checkpoint is the greatest updated_at fetched
\* and every fetched item has a row.
C5_CheckpointIsMax ==
  [][(pc = "commit" /\ IsDate(stage) /\ pc' = "start" /\ seen # {}) =>
       /\ dbProj'[SinceName(stage)] = maxSeen
       /\ seen \subseteq RawURLs(dbRaw')]_vars

C7_EventIDMonotone == [][dbProj'.EventID >= dbProj.EventID]_vars

\* C8: a rate-limited 403 is answered by re-requesting the same page: no
\* callback, no error, nothing stored; and when the next reply is 200 the
\* page was requested twice and its messages go to the callback once.
C8_RateLimitResumes ==
  /\ [][(pc = "request" /\ hist' = Append(hist, <<403, TRUE>>)) =>
          /\ pc' = "request"
          /\ result' = "running"
          /\ <<stage, id, page, since, etagSent>>' = <<stage, id, page, since, etagSent>>
          /\ ncall' = ncall
          /\ <<dbRaw, dbProj, tx>>' = <<dbRaw, dbProj, tx>>]_vars
  /\ []((hist = <<<<403, TRUE>>, <<200, FALSE>>>> /\ pc \in {"items", "commit", "evfinish"}) =>
          /\ ncall = 1
          /\ i <= Len(all) + 1
          /\ (pc = "commit" /\ IsDate(stage)) => i = Len(all) + 1)

C8_Witness ==
  /\ hist = <<<<403, TRUE>>, <<200, FALSE>>>>
  /\ pc = "commit"
  /\ IsDate(stage)
  /\ Len(all) > 0

\* C9: downloadPages returns a 5xx reply as an error only after it has
\* retried that page's request.
C9_Retries5xx ==
  (result = "fatal" /\ hist # <<>> /\ Is5xx(hist[Len(hist)])) =>
    Cardinality({k \in 1..Len(hist) : Is5xx(hist[k])}) >= MaxFail

\* C10: when an event feed request carrying the stored EventETag is
\* answered 304, the event sync ends as
\* a no-op: nothing is stored, the in-memory and stored EventID and
\* EventETag stay, and the run is not aborted: doSync goes on with its
\* remaining work or ends normally.
C10_NotModifiedNoOp ==
  [][(/\ pc = "request" /\ ~IsDate(stage) /\ etagSent # 0
      /\ hist' = Append(hist, <<304, FALSE>>)) =>
       /\ <<dbRaw, dbProj, proj>>' = <<dbRaw, dbProj, proj>>
       /\ tx' = NoTx
       /\ result' \in {"running", "ok"}
       /\ pc' = "start" \/ result' = "ok"]_vars

\* C11: within one doSync the feeds run in the order issues, comments,
\* events: the comments feed is entered only from the finished issues feed
\* and the events feed only from the finished comments feed.
C11_FeedOrder ==
  [][stage' # stage =>
       /\ stage' = Comments => (stage = Issues /\ pc = "commit")
       /\ stage' = Events => (stage = Comments /\ pc = "commit")]_vars

\* ------------------------------------------------- main's loop over projects
\* main, case "sync", "resync": storage.Select reads every tracked project
\* and doSync runs for each in turn. Each call doSync makes (a feed) either
\* returns or ends the process through log.Fatal; what it stores is the
\* subject of Spec and is left out here.
MaxProjects == 3

ProjectNames == 1..MaxProjects

ProjectLists ==
  UNION {{s \in [1..n -> ProjectNames] : \A a, b \in 1..n : a # b => s[a] # s[b]} :
           n \in 0..MaxProjects}

ByIssue == "/issues/%d/events"

SyncAtRest ==
  /\ dbRaw = {}
  /\ dbProj = Proj0
  /\ proj = Proj0
  /\ tx = NoTx
  /\ pc = "idle"
  /\ result = "none"
  /\ runs = 0
  /\ resync = FALSE
  /\ stage = ""
  /\ id = 0
  /\ ids = <<>>
  /\ since = 0 /\ etagSent = 0 /\ page = 0 /\ nfail = 0
  /\ all = <<>> /\ i = 0 /\ resp = NoResp /\ last = 0
  /\ firstID = 0 /\ firstETag = 0
  /\ srv = [fixed |-> FALSE, incl |-> TRUE, data |-> NoData]
  /\ sent = 0
  /\ hist = <<>> /\ ncall = 0 /\ since0 = 0 /\ sinceC = 0 /\ maxSeen = 0 /\ seen = {}
  /\ snap = NoSnap

SyncIdle == SyncAtRest /\ legacy = FALSE

\* What the main loop does not touch.
MainFrame ==
  UNCHANGED <<dbRaw, dbProj, proj, tx, runs, id, ids, since, etagSent, page, nfail,
              all, i, resp, last, firstID, firstETag, legacy, srv, sent, hist,
              ncall, since0, sinceC, maxSeen, seen, snap, editVars, refillVars,
              cacheVars, otherVars>>

InitMain == SyncIdle /\ MainIdle /\ EditIdle /\ RefillIdle /\ CacheIdle /\ OtherIdle

\* main: storage.Select, then the loop's first doSync (main returns at once
\* when no project is tracked).
MainStart(rs, ps) ==
  /\ pc = "idle"
  /\ result = "none"
  /\ projects' = ps
  /\ resync' = rs
  /\ synced' = {}
  /\ IF ps = <<>>
     THEN /\ cur' = 0 /\ result' = "ok" /\ UNCHANGED <<pc, stage>>
     ELSE /\ cur' = 1 /\ result' = "running" /\ pc' = "start" /\ stage' = Comments
  /\ MainFrame

\* The last call doSync makes for a project.
LastStage == IF resync THEN ByIssue ELSE Events

\* A call of doSync returns: doSync goes on with its next call, or returns to
\* the loop, which goes on with the next project or ends.
FeedReturns ==
  /\ pc = "start"
  /\ IF stage # LastStage
     THEN /\ stage' = CASE stage = Comments -> Issues
                        [] stage = Issues -> Events
                        [] OTHER -> ByIssue
          /\ UNCHANGED <<pc, result, cur, synced>>
     ELSE /\ synced' = synced \cup {projects[cur]}
          /\ IF cur < Len(projects)
             THEN /\ cur' = cur + 1
                  /\ stage' = Comments
                  /\ UNCHANGED <<pc, result>>
             ELSE /\ pc' = "idle"
                  /\ result' = "ok"
                  /\ UNCHANGED <<cur, stage>>
  /\ UNCHANGED <<projects, resync>>
  /\ MainFrame

\* A call of doSync fails: log.Fatal ends the process.
FeedFatal ==
  /\ pc = "start"
  /\ pc' = "idle"
  /\ result' = "fatal"
  /\ UNCHANGED <<projects, cur, synced, resync, stage>>
  /\ MainFrame

NextMain ==
  \/ \E rs \in BOOLEAN, ps \in ProjectLists : MainStart(rs, ps)
  \/ FeedReturns
  \/ FeedFatal

SpecMain == InitMain /\ [][NextMain]_vars

\* C12: when one project's sync is aborted by an error, every other project
\* of the invocation is still synced to completion.
C12_ProjectIsolation ==
  (pc = "idle" /\ result = "fatal") =>
    \A k \in 1..Len(projects) : k # cur => projects[k] \in synced

\* ------------------------------------------------------- the issue command
\* Model of the text edit of src/issue: printIssue and bulkEditStart render
\* an issue (or the common part of several) as text, writeIssue and
\* bulkWriteIssue parse the edited text and issue the remote mutations.
\* A string is the sequence of its whitespace-separated words (<<>> is the
\* empty string, which is also what the getters return for nil); a label
\* name of two words is a name with a space in it.
MaxEdits == 2
MaxLine == 2
MaxIssues == 2

Words == {"a", "b"}

WordOrder == <<"a", "b">>

Placeholder == <<"<optional comment here>">>

Titles == {<<"t1">>, <<"t2">>}

IssueStates == {<<"open">>, <<"closed">>}

Logins == {<<>>, <<"u1">>}

\* Label names in use at the remote.
LabelNames == {<<"a">>, <<"b">>, <<"a", "b">>}

\* Milestone titles an issue may carry; m1 is open, m2 is closed.
MilestoneTitles == {<<>>, <<"m1">>, <<"m2">>}

\* What ListMilestones(State: "open") returns: title and number.
OpenMilestones == {[Title |-> <<"m1">>, Number |-> 1]}

\* What loadMilestones returns: the list, or an error.
Loaded == [err |-> FALSE, all |-> OpenMilestones]

LoadFailed == [err |-> TRUE, all |-> {}]

\* Pointer-valued fields of github.IssueRequest: nil or a value.
Nil == [set |-> FALSE, v |-> <<>>]

Some(x) == [set |-> TRUE, v |-> x]

NoEdit == [Title |-> Nil, State |-> Nil, Assignee |-> Nil, Labels |-> Nil, Milestone |-> Nil]

\* sort.Strings: byte order on the names, word by word, a space before any
\* letter.
RECURSIVE StrLess(_, _)
StrLess(s, t) ==
  IF t = <<>> THEN FALSE
  ELSE IF s = <<>> THEN TRUE
  ELSE IF Head(s) = Head(t) THEN StrLess(Tail(s), Tail(t))
  ELSE \E a, b \in 1..Len(WordOrder) :
         a < b /\ WordOrder[a] = Head(s) /\ WordOrder[b] = Head(t)

RECURSIVE SortStrings(_)
SortStrings(S) ==
  IF S = {} THEN <<>>
  ELSE LET m == CHOOSE x \in S : \A y \in S \ {x} : StrLess(x, y)
       IN <<m>> \o SortStrings(S \ {m})

\* getLabelNames: the names, sorted.
getLabelNames(labels) == SortStrings(labels)

\* strings.Join(names, " ")
RECURSIVE Join(_)
Join(names) == IF names = <<>> THEN <<>> ELSE Head(names) \o Join(Tail(names))

\* strings.Fields(line): the words, each a string of its own.
Fields(line) == [k \in 1..Len(line) |-> <<line[k]>>]

Line(f, v) == [f |-> f, v |-> v]

\* printIssue's text up to the text of the issue: the header lines, the
\* blank line, and "Reported by", which starts right after the blank line.
printIssue(issue) ==
  [head |-> <<Line("Title:", issue.Title), Line("State:", issue.State),
              Line("Assignee:", issue.Assignee)>>
            \o (IF issue.Closed THEN <<Line("Closed:", <<"time">>)>> ELSE <<>>)
            \o <<Line("Labels:", Join(getLabelNames(issue.Labels))),
                 Line("Milestone:", issue.Milestone),
                 Line("URL:", <<"url">>),
                 Line("Reactions:", <<>>)>>,
   body |-> <<>>,
   marker |-> FALSE,
   list |-> <<>>,
   header |-> FALSE]

\* A commonLabels that keeps the labels of the first issue.
commonLabelsOfFirst(x, y) == x

\* commonLabels(x, y)
commonLabels(x, y) == IF x = {} \/ y = {} THEN {} ELSE x \cap y

\* bulkEditStart's loop: the fields the issues have in common.
RECURSIVE Common(_, _)
Common(c, issues) ==
  IF issues = <<>> THEN c
  ELSE LET is == Head(issues)
       IN Common([c EXCEPT
                    !.State = IF @ # <<>> /\ @ # is.State THEN <<>> ELSE @,
                    !.Assignee = IF @ # <<>> /\ @ # is.Assignee THEN <<>> ELSE @,
                    !.Milestone = IF @ # <<>> /\ @ # is.Milestone THEN <<>> ELSE @,
                    !.Labels = commonLabels(@, is.Labels)],
                 Tail(issues))

\* bulkEditStart: the common issue ...
bulkBase(issues) ==
  Common([Number |-> 0, Title |-> <<>>, State |-> issues[1].State,
          Assignee |-> issues[1].Assignee, Labels |-> issues[1].Labels,
          Milestone |-> issues[1].Milestone, Closed |-> FALSE],
         Tail(issues))

\* ... and its text.
bulkEditStart(issues) ==
  LET common == bulkBase(issues)
  IN [head |-> <<Line("State:", common.State), Line("Assignee:", common.Assignee),
                 Line("Labels:", Join(getLabelNames(common.Labels))),
                 Line("Milestone:", common.Milestone)>>,
      body |-> Placeholder,
      marker |-> TRUE,
      list |-> [k \in 1..Len(issues) |-> <<issues[k].Number>>],
      header |-> TRUE]

\* diff(line, field, old): nil when the trimmed value is the old one.
diff(line, oldv) == IF oldv = line.v THEN Nil ELSE Some(line.v)

\* diffList's loop over strings.Fields(line): had loses every name met,
\* changes is set by a name had does not hold.
RECURSIVE ListLoop(_, _, _)
ListLoop(fs, had, changes) ==
  IF fs = <<>> THEN [had |-> had, changes |-> changes]
  ELSE ListLoop(Tail(fs), had \ {Head(fs)}, changes \/ Head(fs) \notin had)

\* diffList(line, field, old)
diffList(line, oldl) ==
  LET r == ListLoop(Fields(line.v), {oldl[k] : k \in 1..Len(oldl)}, FALSE)
  IN IF r.changes \/ r.had # {} THEN Some(Fields(line.v)) ELSE Nil

\* diffList2's loop over strings.Fields(line).
RECURSIVE List2Loop(_, _, _)
List2Loop(fs, had, added) ==
  IF fs = <<>> THEN [had |-> had, added |-> added]
  ELSE List2Loop(Tail(fs), had \ {Head(fs)},
                 IF Head(fs) \notin had THEN Append(added, Head(fs)) ELSE added)

\* diffList2(line, field, old)
diffList2(line, oldl) ==
  LET r == List2Loop(Fields(line.v), {oldl[k] : k \in 1..Len(oldl)}, <<>>)
  IN [added |-> r.added, removed |-> SelectSeq(oldl, LAMBDA f : f \in r.had)]

\* findMilestone(w, project, name): the number and what is written to w.
findMilestone(ms, name) ==
  IF ~name.set THEN [n |-> Nil, msg |-> <<>>]
  ELSE IF ms.err
  THEN [n |-> Nil, msg |-> <<[kind |-> "Error loading milestone list", line |-> Line("Milestone:", name.v)]>>]
  ELSE IF \E m \in ms.all : m.Title = name.v
  THEN [n |-> Some(<<(CHOOSE m \in ms.all : m.Title = name.v).Number>>), msg |-> <<>>]
  ELSE [n |-> Nil, msg |-> <<[kind |-> "Unknown milestone", line |-> Line("Milestone:", name.v)]>>]

\* A loop that skips the lines it does not know (not the program's: the
\* default case writes to errbuf).
ParseLineLenient(st, line, o, bulk, ms) ==
  CASE line.f = "Title:" -> [st EXCEPT !.edit.Title = diff(line, o.Title)]
    [] line.f = "State:" -> [st EXCEPT !.edit.State = diff(line, o.State)]
    [] line.f = "Assignee:" -> [st EXCEPT !.edit.Assignee = diff(line, o.Assignee)]
    [] line.f = "Labels:" ->
         IF bulk
         THEN LET d == diffList2(line, getLabelNames(o.Labels))
              IN [st EXCEPT !.addLabels = d.added, !.removeLabels = d.removed]
         ELSE [st EXCEPT !.edit.Labels = diffList(line, getLabelNames(o.Labels))]
    [] line.f = "Milestone:" ->
         LET m == findMilestone(ms, diff(line, o.Milestone))
         IN [st EXCEPT !.edit.Milestone = m.n, !.errbuf = @ \o m.msg]
    [] OTHER -> st

\* One round of writeIssue's loop over the lines before the first blank one.
ParseLine(st, line, o, bulk, ms) ==
  CASE line.f = "#" -> st
    [] line.f = "Title:" -> [st EXCEPT !.edit.Title = diff(line, o.Title)]
    [] line.f = "State:" -> [st EXCEPT !.edit.State = diff(line, o.State)]
    [] line.f = "Assignee:" -> [st EXCEPT !.edit.Assignee = diff(line, o.Assignee)]
    [] line.f = "Closed:" -> st
    [] line.f = "Labels:" ->
         IF bulk
         THEN LET d == diffList2(line, getLabelNames(o.Labels))
              IN [st EXCEPT !.addLabels = d.added, !.removeLabels = d.removed]
         ELSE [st EXCEPT !.edit.Labels = diffList(line, getLabelNames(o.Labels))]
    [] line.f = "Milestone:" ->
         LET m == findMilestone(ms, diff(line, o.Milestone))
         IN [st EXCEPT !.edit.Milestone = m.n, !.errbuf = @ \o m.msg]
    [] line.f = "URL:" -> st
    [] OTHER -> [st EXCEPT !.errbuf = Append(@, [kind |-> "unknown summary line", line |-> line])]

RECURSIVE ParseLines(_, _, _, _, _)
ParseLines(st, lines, o, bulk, ms) ==
  IF lines = <<>> THEN st
  ELSE ParseLines(ParseLine(st, Head(lines), o, bulk, ms), Tail(lines), o, bulk, ms)

\* writeIssue up to the test of errbuf.
ParseHeader(text, o, bulk, ms) ==
  ParseLines([edit |-> NoEdit, addLabels |-> <<>>, removeLabels |-> <<>>, errbuf |-> <<>>],
             text.head, o, bulk, ms)

\* A comment extraction without the test for the placeholder (not the
\* program's).
CommentOfRaw(text) == IF text.marker THEN text.body ELSE <<>>

\* The new comment: the text between the header and the marker, unless it
\* is the placeholder.
CommentOf(text) ==
  LET c == IF text.marker THEN text.body ELSE <<>>
  IN IF c = Placeholder THEN <<>> ELSE c

\* edit.Title != nil || ... || edit.Milestone != nil
HasEdit(e) ==
  e.Title.set \/ e.State.set \/ e.Assignee.set \/ e.Labels.set \/ e.Milestone.set

\* A remote mutation, as recorded in calls.
Call(op, n, e, text) == [op |-> op, n |-> n, edit |-> e, text |-> text]

\* What the issue command does not touch.
EditFrame ==
  UNCHANGED <<syncVars, mainVars, refillVars, cacheVars, otherVars, origin, updated, isBulk>>

\* readBulkIDs: the numbers strconv.Atoi reads from the leading fields of
\* the list's lines, in order; a line whose leading field is no number is
\* skipped. A list line is <<n>> when its leading field reads as n, and <<>>
\* when Atoi rejects it.
readBulkIDs(list) ==
  LET nums == SelectSeq(list, LAMBDA l : l # <<>>)
  IN [k \in 1..Len(nums) |-> nums[k][1]]

\* rate == nil, and a github.Rate with its Limit and Remaining (0 or more).
NoRate == [set |-> FALSE, Limit |-> 0, Remaining |-> 0]

Rate(l, r) == [set |-> TRUE, Limit |-> l, Remaining |-> r]

\* What a reply may carry: resp == nil, or a Rate.
Rates == {NoRate, Rate(0, 0), Rate(1, 0), Rate(1, 1)}

\* if resp != nil { rate = &resp.Rate }
RateAfter(r) == IF r.set THEN r ELSE rate

\* The replies to a remote call: whether it returned without an error, and
\* the Rate of its response. A successful call has a response. The callers
\* of a single issue's writeIssue discard rate, so one Rate stands for all
\* there.
Answers ==
  IF isBulk THEN {a \in BOOLEAN \X Rates : a[1] => a[2].set}
  ELSE {<<TRUE, Rate(1, 1)>>, <<FALSE, NoRate>>}

\* rate != nil && rate.Limit > 0 && rate.Remaining == 0
Exhausted(r) == r.set /\ r.Limit > 0 /\ r.Remaining = 0

\* all[0] -= 'a' - 'A'
Upper(w) ==
  CASE w = "saved" -> "Saved"
    [] w = "updated" -> "Updated"
    [] w = "added" -> "Added"
    [] w = "removed" -> "Removed"
    [] OTHER -> w

\* The closing summary: did[0], then ", did[i]" for the middle ones, a ","
\* when there are three or more, " and did[last]"; the first letter raised;
\* "(%s successfully.)".
Summary(d) ==
  LET n == Len(d)
      mid[k \in 1..n] == IF k = 1 \/ k >= n THEN <<>> ELSE <<",">> \o d[k] \o mid[k + 1]
      body == d[1]
              \o (IF n >= 3 THEN mid[2] ELSE <<>>)
              \o (IF n >= 2 THEN (IF n >= 3 THEN <<",">> ELSE <<>>) \o <<"and">> \o d[n]
                  ELSE <<>>)
  IN <<"(">> \o <<Upper(body[1])>> \o Tail(body) \o <<"successfully.)">>

\* fmt.Fprintf(&errbuf, "<kind>: %v\n", err)
Failure(kind) == [kind |-> kind, line |-> Line("", <<>>)]

\* Mutant of Closing: the summary is added whenever a step succeeded.
ClosingAlways(eb, d) ==
  IF d # <<>>
  THEN Append(eb, [kind |-> "successfully", line |-> Line("", Summary(d))])
  ELSE eb

\* if failed && len(did) > 0: the summary is added to errbuf.
Closing(eb, d) ==
  IF eb # <<>> /\ d # <<>>
  THEN Append(eb, [kind |-> "successfully", line |-> Line("", Summary(d))])
  ELSE eb

\* A writeIssue without the test of old.Number == -1 (not the program's:
\* issue -1 only checks the text).
ParseNoSentinel(ms) ==
  /\ wpc = "parse"
  /\ LET st == ParseHeader(updated, old, isBulk, ms)
     IN /\ edit' = st.edit
        /\ addLabels' = st.addLabels
        /\ removeLabels' = st.removeLabels
        /\ errbuf' = st.errbuf
        /\ IF st.errbuf # <<>> THEN wpc' = "ret" /\ comment' = <<>>
           ELSE IF old.Number = 0 THEN wpc' = "create" /\ comment' = updated.body
           ELSE wpc' = "comment" /\ comment' = CommentOf(updated)
  /\ rmi' = 0
  /\ did' = <<>>
  /\ rate' = NoRate
  /\ UNCHANGED <<old, calls, werr, bulkIDs, index, bfailed, bulkErr>>
  /\ EditFrame

\* writeIssue from its start to the first remote call: the loop over the
\* header lines (loadMilestones answers ms), the test of errbuf, the tests
\* of old.Number, the comment.
Parse(ms) ==
  /\ wpc = "parse"
  /\ LET st == ParseHeader(updated, old, isBulk, ms)
     IN /\ edit' = st.edit
        /\ addLabels' = st.addLabels
        /\ removeLabels' = st.removeLabels
        /\ errbuf' = st.errbuf
        /\ IF st.errbuf # <<>> THEN wpc' = "ret" /\ comment' = <<>>
           ELSE IF old.Number = 0 THEN wpc' = "create" /\ comment' = updated.body
           ELSE IF old.Number = -1 THEN wpc' = "ret" /\ comment' = <<>>
           ELSE wpc' = "comment" /\ comment' = CommentOf(updated)
  /\ rmi' = 0
  /\ did' = <<>>
  /\ rate' = NoRate
  /\ UNCHANGED <<old, calls, werr, bulkIDs, index, bfailed, bulkErr>>
  /\ EditFrame

\* old.Number == 0: client.Issues.Create, and return.
Create(ok, r) ==
  /\ wpc = "create"
  /\ calls' = Append(calls, Call("Create", 0, edit, <<comment>>))
  /\ errbuf' = IF ok THEN errbuf ELSE Append(errbuf, Failure("error creating issue"))
  /\ rate' = RateAfter(r)
  /\ wpc' = "ret"
  /\ UNCHANGED <<old, edit, addLabels, removeLabels, comment, rmi, werr, bulkIDs,
                 index, bfailed, bulkErr, did>>
  /\ EditFrame

\* if comment != "": client.Issues.CreateComment
CreateComment(ok, r) ==
  /\ wpc = "comment"
  /\ IF comment # <<>>
     THEN /\ calls' = Append(calls, Call("CreateComment", old.Number, NoEdit, <<comment>>))
          /\ errbuf' = IF ok THEN errbuf ELSE Append(errbuf, Failure("error saving comment"))
          /\ did' = IF ok THEN Append(did, <<"saved", "comment">>) ELSE did
          /\ rate' = RateAfter(r)
     ELSE /\ ok /\ r = Rate(1, 1)
          /\ UNCHANGED <<calls, errbuf, did, rate>>
  /\ wpc' = "edit"
  /\ UNCHANGED <<old, edit, addLabels, removeLabels, comment, rmi, werr, bulkIDs,
                 index, bfailed, bulkErr>>
  /\ EditFrame

\* An Edit step that is skipped once the comment could not be saved (not
\* the program's: each step is tried whatever the earlier ones returned).
EditUnlessFailed(ok, r) ==
  /\ wpc = "edit"
  /\ IF HasEdit(edit) /\ errbuf = <<>>
     THEN /\ calls' = Append(calls, Call("Edit", old.Number, edit, <<>>))
          /\ errbuf' = IF ok THEN errbuf ELSE Append(errbuf, Failure("error changing metadata"))
          /\ did' = IF ok THEN Append(did, <<"updated", "metadata">>) ELSE did
          /\ rate' = RateAfter(r)
     ELSE /\ ok /\ r = Rate(1, 1)
          /\ UNCHANGED <<calls, errbuf, did, rate>>
  /\ wpc' = "add"
  /\ UNCHANGED <<old, edit, addLabels, removeLabels, comment, rmi, werr, bulkIDs,
                 index, bfailed, bulkErr>>
  /\ EditFrame

\* if edit.Title != nil || ...: client.Issues.Edit
Edit(ok, r) ==
  /\ wpc = "edit"
  /\ IF HasEdit(edit)
     THEN /\ calls' = Append(calls, Call("Edit", old.Number, edit, <<>>))
          /\ errbuf' = IF ok THEN errbuf ELSE Append(errbuf, Failure("error changing metadata"))
          /\ did' = IF ok THEN Append(did, <<"updated", "metadata">>) ELSE did
          /\ rate' = RateAfter(r)
     ELSE /\ ok /\ r = Rate(1, 1)
          /\ UNCHANGED <<calls, errbuf, did, rate>>
  /\ wpc' = "add"
  /\ UNCHANGED <<old, edit, addLabels, removeLabels, comment, rmi, werr, bulkIDs,
                 index, bfailed, bulkErr>>
  /\ EditFrame

\* if len(addLabels) > 0: client.Issues.AddLabelsToIssue
AddLabelsToIssue(ok, r) ==
  /\ wpc = "add"
  /\ IF Len(addLabels) > 0
     THEN /\ calls' = Append(calls, Call("AddLabelsToIssue", old.Number, NoEdit, addLabels))
          /\ errbuf' = IF ok THEN errbuf ELSE Append(errbuf, Failure("error adding labels"))
          /\ did' = IF ~ok THEN did
                    ELSE IF Len(addLabels) = 1
                    THEN Append(did, <<"added", "label">> \o addLabels[1])
                    ELSE Append(did, <<"added", "labels">>)
          /\ rate' = RateAfter(r)
     ELSE /\ ok /\ r = Rate(1, 1)
          /\ UNCHANGED <<calls, errbuf, did, rate>>
  /\ wpc' = "remove"
  /\ rmi' = 1
  /\ UNCHANGED <<old, edit, addLabels, removeLabels, comment, werr, bulkIDs,
                 index, bfailed, bulkErr>>
  /\ EditFrame

\* One round of the loop over removeLabels: client.Issues.RemoveLabelForIssue;
\* past the loop, the closing summary is added to errbuf when a step failed
\* and a step succeeded, and writeIssue returns.
RemoveLabelForIssue(ok, r) ==
  /\ wpc = "remove"
  /\ IF rmi <= Len(removeLabels)
     THEN /\ calls' = Append(calls, Call("RemoveLabelForIssue", old.Number, NoEdit,
                                         <<removeLabels[rmi]>>))
          /\ errbuf' = IF ok THEN errbuf ELSE Append(errbuf, Failure("error removing label"))
          /\ did' = IF ok THEN Append(did, <<"removed", "label">> \o removeLabels[rmi])
                    ELSE did
          /\ rate' = RateAfter(r)
          /\ rmi' = rmi + 1
          /\ UNCHANGED wpc
     ELSE /\ ok /\ r = Rate(1, 1)
          /\ wpc' = "ret"
          /\ errbuf' = Closing(errbuf, did)
          /\ UNCHANGED <<calls, did, rate, rmi>>
  /\ UNCHANGED <<old, edit, addLabels, removeLabels, comment, werr, bulkIDs,
                 index, bfailed, bulkErr>>
  /\ EditFrame

\* writeIssue returns to editIssue.
Return ==
  /\ wpc = "ret"
  /\ ~isBulk
  /\ werr' = (errbuf # <<>>)
  /\ wpc' = "done"
  /\ UNCHANGED <<old, edit, addLabels, removeLabels, errbuf, comment, rmi, calls,
                 bulkIDs, index, bfailed, bulkErr, did, rate>>
  /\ EditFrame

\* bulkWriteIssue up to its first writeIssue: find the list, read the ids,
\* copy old and number it -1.
BulkStart ==
  /\ wpc = "bulk"
  /\ IF ~updated.header
     THEN /\ bulkErr' = "cannot find bulk edit issue list"
          /\ wpc' = "done"
          /\ UNCHANGED <<old, bulkIDs>>
     ELSE IF readBulkIDs(updated.list) = <<>>
     THEN /\ bulkErr' = "found no issues in bulk edit issue list"
          /\ wpc' = "done"
          /\ UNCHANGED <<old, bulkIDs>>
     ELSE /\ bulkIDs' = readBulkIDs(updated.list)
          /\ old' = [old EXCEPT !.Number = -1]
          /\ wpc' = "parse"
          /\ UNCHANGED bulkErr
  /\ UNCHANGED <<edit, addLabels, removeLabels, errbuf, comment, rmi, calls, werr,
                 index, bfailed, did, rate>>
  /\ EditFrame

\* The top of the loop over ids for ids[k]: with the rate exhausted the loop
\* sleeps; otherwise *old.Number = number and writeIssue is called.
LoopTop(k, r) ==
  IF Exhausted(r)
  THEN wpc' = "pause" /\ UNCHANGED old
  ELSE wpc' = "parse" /\ old' = [old EXCEPT !.Number = bulkIDs[k]]

\* The writeIssue of issue -1 returns: its error is returned with no ids;
\* otherwise the loop over ids starts.
BulkChecked ==
  /\ wpc = "ret"
  /\ isBulk
  /\ index = 0
  /\ werr' = (errbuf # <<>>)
  /\ IF errbuf # <<>>
     THEN /\ bulkErr' = "writeIssue"
          /\ bulkIDs' = <<>>
          /\ wpc' = "done"
          /\ UNCHANGED <<old, index>>
     ELSE /\ index' = 1
          /\ LoopTop(1, rate)
          /\ UNCHANGED <<bulkErr, bulkIDs>>
  /\ UNCHANGED <<edit, addLabels, removeLabels, errbuf, comment, rmi, calls, bfailed,
                 did, rate>>
  /\ EditFrame

\* Mutant of BulkWritten: the loop over ids is left at the first writeIssue
\* that returns an error.
BulkWrittenAbort ==
  /\ wpc = "ret"
  /\ isBulk
  /\ index > 0
  /\ werr' = (errbuf # <<>>)
  /\ bfailed' = (bfailed \/ errbuf # <<>>)
  /\ IF index < Len(bulkIDs) /\ errbuf = <<>>
     THEN /\ index' = index + 1
          /\ LoopTop(index + 1, rate)
          /\ UNCHANGED bulkErr
     ELSE /\ bulkErr' = IF bfailed' THEN "failed to update all issues" ELSE ""
          /\ wpc' = "done"
          /\ UNCHANGED <<old, index>>
  /\ UNCHANGED <<edit, addLabels, removeLabels, errbuf, comment, rmi, calls, bulkIDs,
                 did, rate>>
  /\ EditFrame

\* The writeIssue of a listed issue returns: note a failure, go on with the
\* next id, return after the last.
BulkWritten ==
  /\ wpc = "ret"
  /\ isBulk
  /\ index > 0
  /\ werr' = (errbuf # <<>>)
  /\ bfailed' = (bfailed \/ errbuf # <<>>)
  /\ IF index < Len(bulkIDs)
     THEN /\ index' = index + 1
          /\ LoopTop(index + 1, rate)
          /\ UNCHANGED bulkErr
     ELSE /\ bulkErr' = IF bfailed' THEN "failed to update all issues" ELSE ""
          /\ wpc' = "done"
          /\ UNCHANGED <<old, index>>
  /\ UNCHANGED <<edit, addLabels, removeLabels, errbuf, comment, rmi, calls, bulkIDs,
                 did, rate>>
  /\ EditFrame

\* The loop that waits for the rate limit: time.Sleep, client.RateLimits
\* (limits == nil or limits.Core == nil leave rate nil), and the test again.
Pause(r) ==
  /\ wpc = "pause"
  /\ rate' = r
  /\ LoopTop(index, r)
  /\ UNCHANGED <<edit, addLabels, removeLabels, errbuf, comment, rmi, calls, werr,
                 bulkIDs, index, bfailed, bulkErr, did>>
  /\ EditFrame

\* ---- the texts the command is given: a rendered text with at most
\* MaxEdits header lines replaced, deleted or added, and a comment or none.
LabelLines == UNION {[1..n -> Words] : n \in 0..MaxLine}

\* The values a user may put on a header line.
Values(f) ==
  CASE f = "Title:" -> Titles
    [] f = "State:" -> IssueStates
    [] f = "Assignee:" -> Logins
    [] f = "Labels:" -> LabelLines
    [] f = "Milestone:" -> {<<>>, <<"m1">>, <<"m9">>}
    [] OTHER -> {}

Deleted == Line("", <<>>)

\* One change of the header: line k replaced (or deleted), or a line added
\* at the end (k = 0).
Changes(head) ==
  UNION {{[k |-> k, to |-> Line(head[k].f, v)] : v \in Values(head[k].f) \ {head[k].v}} :
           k \in 1..Len(head)}
  \cup {[k |-> k, to |-> Deleted] : k \in 1..Len(head)}
  \cup {[k |-> 0, to |-> l] : l \in {Line("Foo", <<>>), Line("#", <<"note">>)}}

RECURSIVE ChangeSets(_, _)
ChangeSets(head, n) ==
  IF n = 0 THEN {{}}
  ELSE LET P == ChangeSets(head, n - 1)
       IN P \cup UNION {{S \cup {c} : c \in {d \in Changes(head) : \A e \in S : e.k # d.k}} :
                          S \in P}

Changed(head, S) ==
  LET at(k) == IF \E c \in S : c.k = k THEN (CHOOSE c \in S : c.k = k).to ELSE head[k]
      all1 == [k \in 1..Len(head) |-> at(k)]
           \o (IF \E c \in S : c.k = 0 THEN <<(CHOOSE c \in S : c.k = 0).to>> ELSE <<>>)
  IN SelectSeq(all1, LAMBDA l : l # Deleted)

\* The issues shown by printIssue.
ShownIssues ==
  {[Number |-> 1, Title |-> <<"t1">>, State |-> s, Assignee |-> <<>>, Labels |-> ls,
    Milestone |-> m, Closed |-> (s = <<"closed">>)] :
     s \in IssueStates, ls \in {{}, {<<"a">>}, {<<"a">>, <<"b">>}, {<<"a", "b">>}},
     m \in MilestoneTitles}

\* The issues of a bulk edit, numbered from 1.
ListedIssues(n) ==
  [Number : {n}, Title : {<<"t1">>}, State : {<<"open">>}, Assignee : {<<>>},
   Labels : {{<<"a">>}, {<<"a">>, <<"b">>}, {<<"a", "b">>}}, Milestone : {<<>>, <<"m1">>},
   Closed : {FALSE}]

BulkLists ==
  UNION {{s \in [1..n -> UNION {ListedIssues(k) : k \in 1..n}] :
            \A k \in 1..n : s[k].Number = k} : n \in 1..MaxIssues}

\* new(github.Issue) and createTemplate
NewIssue ==
  [Number |-> 0, Title |-> <<>>, State |-> <<>>, Assignee |-> <<>>, Labels |-> {},
   Milestone |-> <<>>, Closed |-> FALSE]

createTemplate ==
  [head |-> <<Line("Title:", <<>>), Line("Assignee:", <<>>), Line("Labels:", <<>>),
              Line("Milestone:", <<>>)>>,
   body |-> <<"<describe issue here>">>, marker |-> FALSE, list |-> <<>>, header |-> FALSE]

\* The state in which writeIssue or bulkWriteIssue is about to run.
EditReady(org, o, text, bulk) ==
  /\ origin = org
  /\ old = o
  /\ updated = text
  /\ isBulk = bulk
  /\ wpc = IF bulk THEN "bulk" ELSE "parse"
  /\ edit = NoEdit /\ addLabels = <<>> /\ removeLabels = <<>> /\ errbuf = <<>>
  /\ comment = <<>> /\ rmi = 0 /\ calls = <<>> /\ werr = FALSE
  /\ bulkIDs = <<>> /\ index = 0 /\ bfailed = FALSE /\ bulkErr = ""
  /\ did = <<>> /\ rate = [set |-> FALSE, Limit |-> 0, Remaining |-> 0]

InitEdit ==
  /\ SyncIdle
  /\ MainIdle
  /\ RefillIdle
  /\ CacheIdle
  /\ OtherIdle
  /\ \/ \E is \in ShownIssues :
          \E S \in ChangeSets(printIssue(is).head, MaxEdits),
             c \in {<<<<>>, FALSE>>, <<<<"c">>, TRUE>>, <<<<"c">>, FALSE>>, <<Placeholder, TRUE>>} :
            EditReady(<<is>>, is,
                      [printIssue(is) EXCEPT !.head = Changed(@, S), !.body = c[1],
                                             !.marker = c[2]],
                      FALSE)
     \/ \E S \in ChangeSets(createTemplate.head, MaxEdits) :
          EditReady(<<>>, NewIssue, [createTemplate EXCEPT !.head = Changed(@, S)], FALSE)
     \/ \E iss \in BulkLists :
          \E S \in ChangeSets(bulkEditStart(iss).head, MaxEdits),
             c \in {Placeholder, <<"c">>},
             l \in {<<TRUE, Len(iss)>>, <<TRUE, 0>>, <<FALSE, 0>>} :
            EditReady(iss, bulkBase(iss),
                      [bulkEditStart(iss) EXCEPT !.head = Changed(@, S), !.body = c,
                                                 !.marker = l[1],
                                                 !.header = l[1],
                                                 !.list = SubSeq(@, 1, l[2])],
                      TRUE)

NextEdit ==
  \/ \E ms \in {Loaded, LoadFailed} : Parse(ms)
  \/ \E a \in Answers : Create(a[1], a[2])
  \/ \E a \in Answers : CreateComment(a[1], a[2])
  \/ \E a \in Answers : Edit(a[1], a[2])
  \/ \E a \in Answers : AddLabelsToIssue(a[1], a[2])
  \/ \E a \in Answers : RemoveLabelForIssue(a[1], a[2])
  \/ Return
  \/ BulkStart
  \/ BulkChecked
  \/ BulkWritten
  \/ \E r \in Rates : Pause(r)

SpecEdit == InitEdit /\ [][NextEdit]_vars

\* ---------------------------------------------------- claims on the edit

\* The text given to writeIssue / bulkWriteIssue is the rendered one.
Unmodified ==
  IF isBulk THEN updated = bulkEditStart(origin)
  ELSE origin # <<>> /\ updated = printIssue(origin[1])

\* C13: the text of printIssue(I) given back unmodified to writeIssue with
\* old = I, and the text of bulkEditStart given back unmodified to
\* bulkWriteIssue, yield no error and no remote mutation.
C13_RoundTrip ==
  (wpc = "done" /\ Unmodified) => (~werr /\ bulkErr = "" /\ calls = <<>>)

\* The header names writeIssue has a case for.
KnownHeaders == {"#", "Title:", "State:", "Assignee:", "Closed:", "Labels:", "Milestone:", "URL:"}

UnknownLines == {k \in 1..Len(updated.head) : updated.head[k].f \notin KnownHeaders}

\* writeIssue has run on the text (bulkWriteIssue did not stop before it).
Parsed ==
  /\ wpc \notin {"idle", "parse", "bulk"} \/ index > 0
  /\ bulkErr \notin {"cannot find bulk edit issue list", "found no issues in bulk edit issue list"}

\* C14: when a header line of the text is not a known one, writeIssue
\* returns an error that names the line and no remote mutation is issued,
\* in single and in bulk mode.
C14_UnknownLineAborts ==
  UnknownLines # {} =>
    /\ calls = <<>>
    /\ wpc \in {"parse", "bulk", "ret", "done"}
    /\ Parsed =>
         \A k \in UnknownLines :
           \E e \in 1..Len(errbuf) :
             errbuf[e] = [kind |-> "unknown summary line", line |-> updated.head[k]]
    /\ (Parsed /\ wpc = "done") => (werr /\ (isBulk => bulkErr = "writeIssue"))

\* A bulk edit that closes the issues and holds an unknown line has ended
\* with the error and without a call.
C14_Witness ==
  /\ isBulk /\ wpc = "done" /\ werr /\ calls = <<>>
  /\ UnknownLines # {}
  /\ edit.State = Some(<<"closed">>)

\* findMilestone has reported that the Milestone: value names no open
\* milestone.
UnknownMilestone == \E e \in 1..Len(errbuf) : errbuf[e].kind = "Unknown milestone"

\* The text holds a change other than the one of the Milestone: line.
OtherChange ==
  LET rest == [updated EXCEPT !.head = SelectSeq(@, LAMBDA l : l.f # "Milestone:")]
      st == ParseHeader(rest, old, isBulk, Loaded)
  IN \/ HasEdit(st.edit)
     \/ st.addLabels # <<>>
     \/ st.removeLabels # <<>>
     \/ CommentOf(updated) # <<>>
     \/ old.Number = 0

\* C15: a Milestone: value that differs from the original and names no open
\* milestone is a warning only: the other changes of the same edit
\* (title, state, assignee, labels, new comment) are still applied.
C15_MilestoneNonFatal ==
  (wpc = "done" /\ UnknownLines = {} /\ UnknownMilestone /\ OtherChange) => calls # <<>>

\* The Labels: line of the text, if it has one.
LabelsLine == {updated.head[k] : k \in {j \in 1..Len(updated.head) : updated.head[j].f = "Labels:"}}

Range(s) == {s[k] : k \in 1..Len(s)}

\* C16: with O the original label names and E the set of names on the
\* edited Labels: line, single mode emits no change when E = O and else
\* the replacement E; bulk mode emits the add-list E \ O and the
\* remove-list O \ E and no replacement.
C16_LabelDiff ==
  \A line \in LabelsLine :
    Parsed =>
      LET E == Range(Fields(line.v))
          O == Range(getLabelNames(old.Labels))
      IN IF isBulk
         THEN /\ ~edit.Labels.set
              /\ Range(addLabels) = E \ O
              /\ Range(removeLabels) = O \ E
         ELSE /\ edit.Labels.set <=> E # O
              /\ edit.Labels.set => Range(edit.Labels.v) = E

\* The errors writeIssue's loop over the header lines writes to errbuf.
ParseErrors == {"unknown summary line", "Unknown milestone", "Error loading milestone list"}

ParseFailed == \E e \in 1..Len(errbuf) : errbuf[e].kind \in ParseErrors

\* The calls the text asks for on issue n, in the order of the steps.
StepsFor(n) ==
  LET st == ParseHeader(updated, old, isBulk, Loaded)
      c == CommentOf(updated)
  IN (IF c # <<>> THEN <<Call("CreateComment", n, NoEdit, <<c>>)>> ELSE <<>>)
     \o (IF HasEdit(st.edit) THEN <<Call("Edit", n, st.edit, <<>>)>> ELSE <<>>)
     \o (IF st.addLabels # <<>> THEN <<Call("AddLabelsToIssue", n, NoEdit, st.addLabels)>>
         ELSE <<>>)
     \o [k \in 1..Len(st.removeLabels) |->
           Call("RemoveLabelForIssue", n, NoEdit, <<st.removeLabels[k]>>)]

\* The calls issued for issue n.
CallsOn(n) == SelectSeq(calls, LAMBDA c : c.n = n)

\* C17: when writeIssue returns for an existing issue whose text parsed,
\* its calls are, in this order, CreateComment, one Edit, AddLabelsToIssue
\* and one RemoveLabelForIssue per removed label: each one whose change is
\* present exactly once, whatever the earlier calls returned, and none
\* whose change is absent.
C17_ApplyOrder ==
  (wpc = "ret" /\ old.Number > 0 /\ ~ParseFailed) => CallsOn(old.Number) = StepsFor(old.Number)

\* All four steps ran for an issue although saving the comment failed.
C17_Witness ==
  /\ wpc = "ret" /\ old.Number > 0
  /\ errbuf # <<>> /\ errbuf[1].kind = "error saving comment"
  /\ Len(CallsOn(old.Number)) = 4
  /\ [k \in 1..4 |-> CallsOn(old.Number)[k].op]
       = <<"CreateComment", "Edit", "AddLabelsToIssue", "RemoveLabelForIssue">>

\* The text rendered for an open issue with only the State: line changed,
\* to closed.
StateOnlyEdit ==
  /\ ~isBulk
  /\ origin # <<>>
  /\ origin[1].State = <<"open">>
  /\ updated = [printIssue(origin[1]) EXCEPT !.head[2] = Line("State:", <<"closed">>)]

\* C18: an edit that only changes State: from open to closed issues exactly
\* one Edit call, with State = closed and every other field unset, and no
\* other call.
C18_StateOnlyEdit ==
  (wpc = "done" /\ StateOnlyEdit) =>
    calls = <<Call("Edit", old.Number, [NoEdit EXCEPT !.State = Some(<<"closed">>)], <<>>)>>

\* A bulk text whose base has a milestone (shared by the listed issues) and
\* whose Milestone: line is blank; the list is the rendered one.
MilestoneBlanked ==
  /\ isBulk
  /\ old.Milestone # <<>>
  /\ \E k \in 1..Len(updated.head) : updated.head[k] = Line("Milestone:", <<>>)
  /\ updated.header
  /\ updated.list = [k \in 1..Len(origin) |-> <<origin[k].Number>>]

\* C19: when the shared milestone of a bulk edit is blanked, bulkWriteIssue
\* issues a milestone-clearing Edit to every listed issue and calls no
\* other issue.
C19_BulkMilestoneClear ==
  (wpc = "done" /\ MilestoneBlanked) =>
    /\ \A k \in 1..Len(origin) :
         \E c \in 1..Len(calls) :
           /\ calls[c].op = "Edit"
           /\ calls[c].n = origin[k].Number
           /\ calls[c].edit.Milestone.set
    /\ \A c \in 1..Len(calls) : \E k \in 1..Len(origin) : calls[c].n = origin[k].Number

\* C20: in a bulk edit the writeIssue of issue -1 issues no call; when it
\* returns an error no call is issued at all; every call that is issued is
\* made after that pass succeeded, on a listed issue, and is one of the
\* calls the text asks for.
C20_DryRunGate ==
  isBulk =>
    /\ old.Number = -1 => calls = <<>>
    /\ bulkErr = "writeIssue" => calls = <<>>
    /\ calls # <<>> => index > 0
    /\ \A c \in 1..Len(calls) :
         /\ calls[c].n \in Range(bulkIDs)
         /\ calls[c] \in Range(StepsFor(calls[c].n))

\* A bulk edit of two issues has ended without error and has applied the
\* change-set to both.
C20_Witness ==
  /\ isBulk /\ wpc = "done" /\ bulkErr = ""
  /\ bulkIDs = <<1, 2>>
  /\ CallsOn(1) # <<>>
  /\ CallsOn(1) = StepsFor(1)
  /\ CallsOn(2) = StepsFor(2)

\* The CreateComment calls issued for issue n.
CommentsOn(n) == SelectSeq(calls, LAMBDA c : c.n = n /\ c.op = "CreateComment")

\* C21: for an existing issue whose text parsed, writeIssue posts one new
\* comment, the text between the header and the sentinel, exactly when the
\* sentinel is found and that text is neither empty nor the placeholder;
\* a bulk edit that ended without error has posted that same comment to
\* every listed issue.
C21_NewComment ==
  LET wanted == updated.marker /\ updated.body # <<>> /\ updated.body # Placeholder
      posted(n) == IF wanted THEN <<Call("CreateComment", n, NoEdit, <<updated.body>>)>>
                   ELSE <<>>
  IN /\ (wpc = "ret" /\ old.Number > 0 /\ ~ParseFailed) =>
          CommentsOn(old.Number) = posted(old.Number)
     /\ (isBulk /\ wpc = "done" /\ bulkErr = "") =>
          \A k \in 1..Len(bulkIDs) : CommentsOn(bulkIDs[k]) = posted(bulkIDs[k])

\* A bulk edit of two issues has ended and both have the comment c.
C21_Witness ==
  /\ isBulk /\ wpc = "done"
  /\ bulkIDs = <<1, 2>>
  /\ \A n \in {1, 2} : CommentsOn(n) = <<Call("CreateComment", n, NoEdit, <<<<"c">>>>)>>

\* ------------------------------------------------------------------ refill
\* refill (src/issuedb/main.go:548-691, second copy 1166-1312) rebuilds the
\* History table from RawJSON; a sync is seen here as the page it commits.
\* refill selects 100 rows at a time; BatchLimit stands for that 100.
BatchLimit == 1
MaxCommands == 4

\* What a stored payload holds for refill, by the row's Type: the event
\* kind of an event ("bogus" is none of the known kinds), the state of an
\* issue with the login of its assignee and the title of its milestone;
\* "badjson" is a payload json.Unmarshal rejects.
RefillKinds ==
  {<<Events, "labeled", "", "">>, <<Events, "bogus", "", "">>, <<Events, "badjson", "", "">>,
   <<Issues, "closed", "", "">>, <<Issues, "open", "u1", "m1">>,
   <<Issues, "closed", "u1", "">>, <<Issues, "open", "", "m1">>,
   <<Comments, "comment", "", "">>}

KnownEvents ==
  {"subscribed", "unsubscribed", "reopened", "locked", "unlocked", "head_ref_deleted",
   "head_ref_restored", "mentioned", "closed", "merged", "referenced", "assigned",
   "unassigned", "labeled", "unlabeled", "milestoned", "demilestoned", "renamed"}

\* The order refill reads RawJSON in: by URL, in the second copy by RowID.
RawKey(m) == IF legacy THEN m.RowID ELSE m.URL

\* A History row stamped with the time of the replay (not the program's:
\* h.Time is the payload's time).
HistoryRowStamped(m, k, issue, action, text) ==
  [ID |-> IF legacy THEN <<m.RowID * 10 + k>> ELSE <<m.URL, action>>,
   Issue |-> issue, Time |-> rcount, Who |-> "u", Action |-> action, Text |-> text]

\* One History row: h.URL and h.Action are the key, in the second copy
\* h.RowID is.
HistoryRow(m, k, issue, action, text) ==
  [ID |-> IF legacy THEN <<m.RowID * 10 + k>> ELSE <<m.URL, action>>,
   Issue |-> issue, Time |-> m.JSON.n, Who |-> "u", Action |-> action, Text |-> text]

\* The body of refill's loop over the rows of a batch: the History rows
\* inserted for the RawJSON row m, in order.
HistoryOf(m) ==
  IF m.JSON.sub = "badjson" THEN <<>>
  ELSE CASE m.Type = Events ->
              <<HistoryRow(m, 0, IF legacy THEN Number(m.JSON) ELSE m.Issue, m.JSON.sub,
                           IF m.JSON.sub = "labeled" THEN "label" ELSE "")>>
         [] m.Type = Comments -> <<HistoryRow(m, 0, Number(m.JSON), "comment", "body")>>
         [] m.Type = Issues ->
              <<HistoryRow(m, 0, Number(m.JSON), "issue", "body")>>
              \o (IF m.JSON.assignee # ""
                  THEN <<HistoryRow(m, 1, Number(m.JSON), "assign?", m.JSON.assignee)>>
                  ELSE <<>>)
              \o (IF m.JSON.milestone # ""
                  THEN <<HistoryRow(m, 2, Number(m.JSON), "milestone?", m.JSON.assignee)>>
                  ELSE <<>>)
              \o (IF m.JSON.sub # "open"
                  THEN <<HistoryRow(m, 3, Number(m.JSON), "close?", "")>> ELSE <<>>)
         [] OTHER -> <<>>

\* storage.Insert(tx, &h)
InsertHistory(table, h) == {r \in table : r.ID # h.ID} \cup {h}

RECURSIVE InsertAll(_, _)
InsertAll(table, hs) ==
  IF hs = <<>> THEN table ELSE InsertAll(InsertHistory(table, Head(hs)), Tail(hs))

\* storage.Select(db, &all, "where URL > ? order by URL asc limit 100", last)
RECURSIVE SelectBatch(_, _)
SelectBatch(S, n) ==
  IF S = {} \/ n = 0 THEN <<>>
  ELSE LET m == CHOOSE x \in S : \A y \in S : RawKey(x) <= RawKey(y)
       IN <<m>> \o SelectBatch(S \ {m}, n - 1)

RECURSIVE HistoryOfAll(_)
HistoryOfAll(ms) == IF ms = <<>> THEN <<>> ELSE HistoryOf(Head(ms)) \o HistoryOfAll(Tail(ms))

RefillFrame == UNCHANGED <<proj, tx, pc, result, runs, resync, stage, id, ids, since, etagSent,
                           page, nfail, all, i, resp, last, firstID, firstETag, legacy, srv,
                           sent, hist, ncall, since0, sinceC, maxSeen, seen, snap,
                           mainVars, editVars, cacheVars, otherVars>>

\* A sync commits a page holding one payload: the row and the checkpoint.
SyncStores(u, k) ==
  /\ rpc = "idle"
  /\ rcount < MaxCommands
  /\ rcount' = rcount + 1
  /\ dbRaw' = Store(dbRaw, [url |-> u, n |-> 1, sub |-> k[2], assignee |-> k[3],
                             milestone |-> k[4]], k[1], u)
  /\ dbProj' = IF IsDate(k[1]) THEN [dbProj EXCEPT ![SinceName(k[1])] = 1]
               ELSE [dbProj EXCEPT !.EventID = u]
  /\ UNCHANGED <<dbHist, rpc, rlast, out, prev>>
  /\ RefillFrame

\* A refill that also empties RawJSON (not the program's).
RefillStartWipe ==
  /\ rpc = "idle"
  /\ rcount < MaxCommands
  /\ rcount' = rcount + 1
  /\ dbHist' = {}
  /\ dbRaw' = {}
  /\ rlast' = 0
  /\ out' = <<>>
  /\ rpc' = "select"
  /\ UNCHANGED <<dbProj, prev>>
  /\ RefillFrame

\* refill: delete from History; last := ""
RefillStart ==
  /\ rpc = "idle"
  /\ rcount < MaxCommands
  /\ rcount' = rcount + 1
  /\ dbHist' = {}
  /\ rlast' = 0
  /\ out' = <<>>
  /\ rpc' = "select"
  /\ UNCHANGED <<dbRaw, dbProj, prev>>
  /\ RefillFrame

\* One round of refill's loop: select the next rows, insert their History
\* rows in one transaction, commit; no row left ends refill.
RefillBatch ==
  /\ rpc = "select"
  /\ LET b == SelectBatch({m \in dbRaw : RawKey(m) > rlast}, BatchLimit)
     IN IF b = <<>>
        THEN /\ rpc' = "idle"
             /\ prev' = Append(prev, [out |-> out, raw |-> dbRaw, table |-> dbHist])
             /\ UNCHANGED <<dbHist, rlast, out>>
        ELSE /\ dbHist' = InsertAll(dbHist, HistoryOfAll(b))
             /\ out' = out \o HistoryOfAll(b)
             /\ rlast' = RawKey(b[Len(b)])
             /\ UNCHANGED <<rpc, prev>>
  /\ UNCHANGED <<dbRaw, dbProj, rcount>>
  /\ RefillFrame

\* log.Fatal on a database error (or the process is killed): the open
\* transaction is rolled back, the committed batches stay.
RefillFatal ==
  /\ rpc = "select"
  /\ rpc' = "idle"
  /\ UNCHANGED <<dbRaw, dbProj, dbHist, rlast, out, prev, rcount>>
  /\ RefillFrame

InitRefill ==
  /\ SyncAtRest
  /\ legacy \in BOOLEAN
  /\ MainIdle
  /\ EditIdle
  /\ RefillIdle
  /\ CacheIdle
  /\ OtherIdle

NextRefill ==
  \/ \E u \in URLs, k \in RefillKinds : SyncStores(u, k)
  \/ RefillStart
  \/ RefillBatch
  \/ RefillFatal

SpecRefill == InitRefill /\ [][NextRefill]_vars

\* ---------------------------------------------------- claims on refill

C23_ReplayAppendStable ==
  \A a, b \in 1..Len(prev) :
    (a < b /\ prev[a].raw \subseteq prev[b].raw) =>
      /\ Len(prev[a].out) <= Len(prev[b].out)
      /\ SubSeq(prev[b].out, 1, Len(prev[a].out)) = prev[a].out

\* C24: an event row whose event kind is not a known one yields no History
\* row, and the refill goes on: every completed refill has inserted the
\* rows of all the other RawJSON rows and no row of an unknown kind.
C24_UnknownEventDropped ==
  \A a \in 1..Len(prev) :
    /\ \A k \in 1..Len(prev[a].out) :
         prev[a].out[k].Action \in
           KnownEvents \cup {"comment", "issue", "assign?", "milestone?", "close?"}
    /\ \A m \in prev[a].raw :
         (m.Type = Events => m.JSON.sub \in KnownEvents) =>
           \A k \in 1..Len(HistoryOf(m)) : HistoryOf(m)[k] \in prev[a].table

GetIssues(n) ==
  {[Number |-> n, Title |-> <<"t1">>, State |-> s, Assignee |-> <<>>, Labels |-> {<<"a">>},
    Milestone |-> <<>>, Closed |-> (s = <<"closed">>)] : s \in IssueStates}

\* The lists of numbers a bulk window may hold.
IDLists == UNION {{s \in [1..n -> 1..MaxIssues] : \A a, b \in 1..n : a < b => s[a] < s[b]} :
                    n \in 1..MaxIssues}

\* bulkReadIssuesCached(project, ids): the cached issue of each number, the
\* fetched one for a number the cache does not hold.
bulkReadIssuesCached(nums) ==
  [k \in 1..Len(nums) |->
     IF issueCache[nums[k]] # <<>> THEN issueCache[nums[k]][1] ELSE remote[nums[k]]]

GetFrame ==
  UNCHANGED <<syncVars, mainVars, refillVars, otherVars, edit, addLabels, removeLabels,
              errbuf, comment, rmi, calls, werr, bulkIDs, index, bfailed, bulkErr, did, rate>>

\* load of a query window: every issue listed is cached (updateIssueCache).
SearchLoad ==
  /\ issueCache' = [n \in 1..MaxIssues |-> <<remote[n]>>]
  /\ wpc' = "listed"
  /\ UNCHANGED <<remote, origin, old, updated, isBulk>>
  /\ GetFrame

\* Someone changes issue n on the service.
RemoteChange(n, is) ==
  /\ is # remote[n]
  /\ remote' = [remote EXCEPT ![n] = is]
  /\ UNCHANGED <<issueCache, wpc, origin, old, updated, isBulk>>
  /\ GetFrame

\* Get in a bulk window that lists the numbers nums: client.Issues.Get answers (ok) or
\* fails for the numbers that are not cached; an error leaves the window as
\* it is.
BulkGet(nums, ok) ==
  /\ \/ ok
     \/ \E k \in 1..Len(nums) : issueCache[nums[k]] = <<>>
  /\ IF ok
     THEN LET issues == bulkReadIssuesCached(nums)
          IN /\ issueCache' = [n \in 1..MaxIssues |->
                                 IF issueCache[n] = <<>> /\ \E k \in 1..Len(nums) : nums[k] = n
                                 THEN <<remote[n]>> ELSE issueCache[n]]
             /\ origin' = issues
             /\ old' = bulkBase(issues)
             /\ updated' = bulkEditStart(issues)
             /\ isBulk' = TRUE
             /\ wpc' = "got"
     ELSE /\ wpc' = "geterr"
          /\ UNCHANGED <<issueCache, origin, old, updated, isBulk>>
  /\ UNCHANGED remote
  /\ GetFrame

InitGet ==
  /\ SyncIdle
  /\ MainIdle
  /\ RefillIdle
  /\ EditIdle
  /\ OtherIdle
  /\ remote \in {r \in [1..MaxIssues -> UNION {GetIssues(n) : n \in 1..MaxIssues}] :
                   \A n \in 1..MaxIssues : r[n].Number = n}
  /\ issueCache = [n \in 1..MaxIssues |-> <<>>]

NextGet ==
  \/ SearchLoad
  \/ \E n \in 1..MaxIssues : \E is \in GetIssues(n) : RemoteChange(n, is)
  \/ \E nums \in IDLists, ok \in BOOLEAN : BulkGet(nums, ok)

SpecGet == InitGet /\ [][NextGet]_vars

\* C26: Get in a bulk window renders the header and the base from the
\* issues as the service holds them at that time.
C26_BulkGetIsCurrent ==
  [][(wpc' = "got" /\ remote' = remote) =>
       LET now == [k \in 1..Len(origin') |-> remote[origin'[k].Number]]
       IN /\ old' = bulkBase(now)
          /\ updated' = bulkEditStart(now)]_vars

\* ---------------------------------------------------------------- C27
\* The project event feed is being read incrementally: syncIssueEvents(proj, 0)
\* with a stored high-water mark.
Incremental == stage = Events /\ id = 0 /\ proj.EventID # 0

\* The callback stands before a message with an id.
AtMessage == pc = "items" /\ i <= Len(all) /\ all[i].n # 0

\* C27: in an incremental event sync (id = 0, stored high-water mark H # 0)
\* the messages are taken in the order the server returned them; a message
\* with id > H is inserted and the next one is taken; at the first message
\* with id <= H nothing is inserted and the walk ends: from there the
\* transaction's rows stay as they are and no further page is requested.
C27_ShortCircuit ==
  [][Incremental /\ pc' # "idle" =>
       /\ AtMessage /\ all[i].n > proj.EventID =>
            /\ tx'.raw = Insert(tx.raw, Row(all[i], Events, Number(all[i])))
            /\ pc' = "items" /\ i' = i + 1 /\ all' = all /\ page' = page
       /\ AtMessage /\ all[i].n <= proj.EventID =>
            /\ tx'.raw = tx.raw
            /\ pc' = "evfinish" /\ i' = i /\ all' = all /\ page' = page
       /\ pc = "evfinish" => pc' = "commit" /\ tx'.raw = tx.raw /\ page' = page
       /\ pc = "commit" => dbRaw' = tx.raw /\ pc' = "start" /\ id' # 0]_vars

\* An incremental walk has stopped at a message at or below the mark while
\* the response named a further page.
C27_Witness ==
  /\ Incremental /\ pc = "evfinish"
  /\ i <= Len(all) /\ all[i].n <= proj.EventID
  /\ resp.next

\* ---------------------------------------------------------------- C28
\* syncIssueEvents(proj, 0) is running.
ProjectWalk == stage = Events /\ id = 0 /\ pc \in {"request", "items", "evfinish", "commit"}

\* The step is syncIssueEvents' tx.Commit.
EventCommit == ProjectWalk /\ pc = "commit" /\ pc' # "commit" /\ result' # "fatal" /\ result' # "killed"

\* C28: in a walk of the project's event feed, firstID and firstETag are taken
\* from the first message of the first page and from that page's response;
\* the stored EventID and EventETag become these values at the commit that
\* also publishes the event rows the walk inserted, and nothing of the walk
\* is stored by any other step.
C28_MarkIsFirstOfFirstPage ==
  [][ProjectWalk =>
       /\ firstID = 0 /\ firstID' # 0 =>
            /\ page = 1 /\ i = 1
            /\ firstID' = all[1].n /\ firstETag' = resp.etag
       /\ firstID # 0 /\ pc' \in {"request", "items", "evfinish", "commit"} =>
            firstID' = firstID /\ firstETag' = firstETag
       /\ EventCommit =>
            /\ dbRaw' = tx.raw
            /\ firstID # 0 => /\ dbProj'.EventID = firstID
                              /\ dbProj'.EventETag = firstETag
            /\ firstID = 0 => dbProj' = dbProj /\ dbRaw' = dbRaw
       /\ ~EventCommit => durable' = durable]_vars

\* ---------------------------------------------------------------- resync
\* The store an earlier sync left behind: one issue, one event of the
\* project feed, and that event's id and the feed's Etag as the high-water
\* mark. The service answers anything.
StoredProj(h) ==
  [EventETag |-> 1, EventID |-> h, IssueDate |-> 1, CommentDate |-> 0]

StoredRaw(h) ==
  {Row([url |-> 1, n |-> 1], Issues, 1), Row([url |-> 2, n |-> h], Events, 2)}

InitStored ==
  /\ \E h \in 1..MaxTime :
       /\ dbRaw = StoredRaw(h)
       /\ dbProj = StoredProj(h)
  /\ proj = Proj0
  /\ tx = NoTx
  /\ pc = "idle"
  /\ result = "none"
  /\ runs = 0
  /\ resync = FALSE
  /\ stage = ""
  /\ id = 0
  /\ ids = <<>>
  /\ since = 0 /\ etagSent = 0 /\ page = 0 /\ nfail = 0
  /\ all = <<>> /\ i = 0 /\ resp = NoResp /\ last = 0
  /\ firstID = 0 /\ firstETag = 0
  /\ legacy = FALSE
  /\ srv = [fixed |-> FALSE, incl |-> TRUE, data |-> NoData]
  /\ sent = 0
  /\ hist = <<>> /\ ncall = 0 /\ since0 = 0 /\ sinceC = 0 /\ maxSeen = 0 /\ seen = {}
  /\ snap = NoSnap
  /\ MainIdle
  /\ EditIdle
  /\ RefillIdle
  /\ CacheIdle
  /\ OtherIdle

SpecResync == InitStored /\ [][Next]_vars

\* ---------------------------------------------------------------- C29
\* syncIssueEvents(proj, id) is running for a single issue.
IssueWalk == stage = Events /\ id > 0 /\ pc \in {"request", "items", "evfinish", "commit"}

\* The walk of this issue goes on after the step.
WalkGoesOn == pc' \in {"request", "items", "evfinish", "commit"} /\ id' = id

\* C29: a walk for a single issue (id > 0) inserts every message, whatever
\* its id is compared with the stored EventID, under that issue's number;
\* after a page whose response names another page it requests that page; and
\* no step of it changes EventID or EventETag, in memory, in the transaction
\* or in the database.
C29_IssueWalk ==
  [][IssueWalk =>
       /\ AtMessage /\ WalkGoesOn =>
            /\ tx'.raw = Insert(tx.raw, Row(all[i], Events, id))
            /\ pc' = "items" /\ i' = i + 1 /\ all' = all
       /\ pc = "items" /\ i > Len(all) /\ resp.next /\ WalkGoesOn =>
            pc' = "request" /\ page' = page + 1 /\ tx' = tx
       /\ WalkGoesOn => tx'.proj = tx.proj
       /\ proj'.EventID = proj.EventID /\ proj'.EventETag = proj.EventETag
       /\ dbProj' = dbProj]_vars

\* A walk for a single issue has inserted a message whose id is not above the
\* stored high-water mark and then moved on to a second page.
C29_Witness ==
  /\ IssueWalk /\ page = 2
  /\ proj.EventID # 0
  /\ \E r \in tx.raw : r.Type = Events /\ r.Issue = id /\ r.JSON.n <= proj.EventID
                       /\ r \notin dbRaw

\* ---------------------------------------------------------------- part_004
\* The later revision of the synchronizer: doSync syncs issues before
\* comments, and a resync reads the project's event feed with short = true
\* before it walks the events of every issue.

\* doSync: syncIssueEvents(proj, 0, true) in a resync, (proj, 0, false) in a
\* sync; syncIssueEventsByIssue: syncIssueEvents(proj, id, false).
short == resync /\ id = 0

\* main, case "sync", "resync": doSync starts with syncIssues.
StartSyncP4(rs) ==
  /\ UNCHANGED restVars
  /\ pc = "idle"
  /\ runs < MaxRuns
  /\ runs' = runs + 1
  /\ resync' = rs
  /\ proj' = dbProj
  /\ result' = "running"
  /\ stage' = Issues
  /\ id' = 0
  /\ ids' = <<>>
  /\ pc' = "start"
  /\ tx' = NoTx
  /\ ResetLocals
  /\ hist' = <<>> /\ ncall' = 0 /\ since0' = 0 /\ sinceC' = 0 /\ maxSeen' = 0 /\ seen' = {}
  /\ UNCHANGED <<dbRaw, dbProj, legacy, srv, sent, snap>>

\* doSync after a downloadByDate call: syncIssues, syncIssueComments, then
\* the events.
AfterDateP4 ==
  /\ pc' = "start"
  /\ stage' = IF stage = Issues THEN Comments ELSE Events
  /\ tx' = NoTx
  /\ ResetLocals
  /\ hist' = <<>> /\ ncall' = 0
  /\ since0' = 0 /\ sinceC' = 0 /\ maxSeen' = 0 /\ seen' = {}
  /\ UNCHANGED <<result, id, ids, snap>>

\* syncIssueEvents' callback, one message: the walk also stops at the first
\* message when short is set.
EventItemP4 ==
  /\ UNCHANGED restVars
  /\ pc = "items"
  /\ ~IsDate(stage)
  /\ i <= Len(all)
  /\ all[i].n # 0
  /\ firstID' = IF firstID = 0 THEN all[i].n ELSE firstID
  /\ firstETag' = IF firstID = 0 THEN resp.etag ELSE firstETag
  /\ IF id = 0 /\ ((proj.EventID # 0 /\ all[i].n <= proj.EventID) \/ short)
     THEN /\ pc' = "evfinish"
          /\ UNCHANGED <<tx, i>>
     ELSE /\ tx' = [tx EXCEPT !.raw =
                      Store(@, all[i], Events, IF id > 0 THEN id ELSE Number(all[i]))]
          /\ i' = i + 1
          /\ UNCHANGED pc
  /\ UNCHANGED <<dbRaw, dbProj, proj, result, runs, resync, stage, id, ids,
                 since, etagSent, page, nfail, all, resp, last, legacy, srv, sent, history, snap>>

\* tx.Commit, and what follows it in downloadPages and doSync.
CommitP4 ==
  /\ UNCHANGED restVars
  /\ pc = "commit"
  /\ dbRaw' = tx.raw
  /\ dbProj' = tx.proj
  /\ IF IsDate(stage)
     THEN IF resp.next
          THEN /\ NextPage
               /\ tx' = NoTx
               /\ sinceC' = last
               /\ UNCHANGED <<result, stage, id, ids, snap, since0, maxSeen, seen>>
          ELSE AfterDateP4
     ELSE /\ AfterEvents(tx.raw, tx.proj)
          /\ hist' = <<>> /\ ncall' = 0
          /\ UNCHANGED <<sinceC, since0, maxSeen, seen>>
  /\ UNCHANGED <<proj, runs, resync, legacy, srv, sent>>

NextP4 ==
  \/ \E rs \in BOOLEAN : StartSyncP4(rs)
  \/ Begin
  \/ RateLimited
  \/ Retry500
  \/ RequestFatal
  \/ NotModified
  \/ RequestOK
  \/ BadItem
  \/ DateItem
  \/ DatePageEnd
  \/ EventItemP4
  \/ EventPageEnd
  \/ EvFinish
  \/ CommitP4
  \/ DbFail
  \/ Kill

SpecP4 == InitStored /\ [][NextP4]_vars

\* ---------------------------------------------------------------- C30
\* The event rows of table raw that hold message m.
Holds(raw, m) == \E r \in raw : r.Type = Events /\ r.URL = m.url /\ r.JSON = m

\* Message k of the page is the last one the page lists under its url.
LastListed(k) == \A j \in (k + 1)..Len(all) : all[j].url # all[k].url

\* C30: when the commit of a walk of the project's event feed stores a new
\* high-water mark, every event listed on the page the walk read last whose
\* id is above the old mark and not above the new one is in the stored
\* RawJSON.
C30_NoGapBehindMark ==
  [][EventCommit /\ dbProj'.EventID # dbProj.EventID =>
       \A k \in 1..Len(all) :
         /\ LastListed(k)
         /\ dbProj.EventID < all[k].n
         /\ all[k].n <= dbProj'.EventID
         => Holds(dbRaw', all[k])]_vars

\* ---------------------------------------------------------------- C31
\* The position is inside a writeIssue call.
InWriteIssue == wpc \in {"parse", "create", "comment", "edit", "add", "remove"}

\* C31: once the write to issue -1 has succeeded, bulkWriteIssue calls
\* writeIssue for ids[0], ids[1], ... in this order, each exactly once: a
\* call is entered for the id at index, the index moves on by one exactly
\* when a call has returned, whether it failed or not, a pause keeps the
\* index and ends in the call for that index, and the loop is left only
\* after the call for the last id has returned.
C31_EachIssueOnce ==
  [][isBulk /\ index > 0 =>
       /\ bulkIDs' = bulkIDs /\ bulkIDs = readBulkIDs(updated.list)
       /\ InWriteIssue => index' = index /\ old' = old /\ old.Number = bulkIDs[index]
       /\ wpc = "pause" =>
            /\ index' = index
            /\ \/ wpc' = "pause" /\ Exhausted(rate')
               \/ wpc' = "parse" /\ ~Exhausted(rate') /\ old'.Number = bulkIDs[index]
       /\ wpc = "ret" =>
            IF index = Len(bulkIDs) THEN wpc' = "done" /\ index' = index
            ELSE /\ index' = index + 1
                 /\ \/ wpc' = "pause" /\ Exhausted(rate)
                    \/ wpc' = "parse" /\ ~Exhausted(rate) /\ old'.Number = bulkIDs[index']
       /\ wpc = "done" => UNCHANGED <<wpc, index, calls>>]_vars

\* The write of the first of two listed issues failed and the loop pauses
\* for the rate limit before the second.
C31_Witness ==
  /\ isBulk /\ wpc = "pause" /\ index = 2 /\ Len(bulkIDs) = 2
  /\ bfailed /\ Exhausted(rate)

\* ---------------------------------------------------------------- bulk lists
\* The lines a user may leave in the issue list of a bulk edit window: lines
\* whose leading field is a number, and a line that is no number.
ListLines == {<<-1>>, <<0>>, <<1>>, <<2>>, <<>>}

EditedLists == UNION {[1..n -> ListLines] : n \in 0..MaxIssues}

\* A bulk edit of one issue whose issue list has been edited by hand.
InitBulk ==
  /\ SyncIdle
  /\ MainIdle
  /\ RefillIdle
  /\ CacheIdle
  /\ OtherIdle
  /\ \E iss \in {s \in BulkLists : Len(s) = 1} :
       \E S \in ChangeSets(bulkEditStart(iss).head, 1),
          c \in {Placeholder, <<"c">>},
          l \in EditedLists :
         EditReady(iss, bulkBase(iss),
                   [bulkEditStart(iss) EXCEPT !.head = Changed(@, S), !.body = c,
                                              !.list = l],
                   TRUE)

NextBulk ==
  \/ \E ms \in {Loaded, LoadFailed} : Parse(ms)
  \/ \E a \in Answers : Create(a[1], a[2])
  \/ \E a \in Answers : CreateComment(a[1], a[2])
  \/ \E a \in Answers : Edit(a[1], a[2])
  \/ \E a \in Answers : AddLabelsToIssue(a[1], a[2])
  \/ \E a \in Answers : RemoveLabelForIssue(a[1], a[2])
  \/ BulkStart
  \/ BulkChecked
  \/ BulkWritten
  \/ \E r \in Rates : Pause(r)

SpecBulk == InitBulk /\ [][NextBulk]_vars

\* ---------------------------------------------------------------- C32
\* C32: whatever the issue list of a bulk edit holds, bulkWriteIssue never
\* calls Issues.Create, and every remote mutation it issues is on an issue
\* whose number the list names.
C32_BulkNeverCreates ==
  isBulk =>
    \A k \in 1..Len(calls) :
      calls[k].op # "Create" /\ calls[k].n \in Range(bulkIDs)

\* ---------------------------------------------------------------- C33
StepErrors == {"error saving comment", "error changing metadata", "error adding labels",
               "error removing label"}

\* The remote call a word of did stands for.
StepOf(w) ==
  CASE w = "saved" -> "CreateComment"
    [] w = "updated" -> "Edit"
    [] w = "added" -> "AddLabelsToIssue"
    [] w = "removed" -> "RemoveLabelForIssue"
    [] OTHER -> ""

\* The messages of errbuf of the given kinds, in order.
Messages(kinds) == SelectSeq(errbuf, LAMBDA e : e.kind \in kinds)

\* The words of a text.
WordsOf(s) == {s[k] : k \in 1..Len(s)}

\* C33: when writeIssue returns for an issue, every remote step it attempted
\* either succeeded or left a failure message; the error is nil exactly when
\* there is no parse diagnostic and every attempted step succeeded; when a
\* step failed and a step succeeded, the error text is the failure messages
\* followed by one parenthesised line that names every step that succeeded;
\* when no step succeeded it holds only diagnostics and failure messages.
\* No step removes a remote call already made.
C33_FailureReport ==
  [][/\ wpc = "ret" /\ old.Number > 0 =>
          LET mine == CallsOn(old.Number)
              fails == Messages(StepErrors)
              diag == Messages(ParseErrors)
          IN /\ Len(mine) = Len(did) + Len(fails)
             /\ \A k \in 1..Len(did) : \E c \in 1..Len(mine) : mine[c].op = StepOf(did[k][1])
             /\ errbuf = <<>> <=> (diag = <<>> /\ Len(did) = Len(mine))
             /\ diag # <<>> => mine = <<>> /\ errbuf = diag
             /\ fails # <<>> /\ did # <<>> =>
                  /\ errbuf = Append(fails, errbuf[Len(errbuf)])
                  /\ errbuf[Len(errbuf)].kind = "successfully"
                  /\ LET text == errbuf[Len(errbuf)].line.v
                     IN /\ text[1] = "(" /\ text[Len(text)] = "successfully.)"
                        /\ \A k \in 1..Len(did) : WordsOf(Tail(did[k])) \subseteq WordsOf(text)
                        /\ Len(text) >= 2 + Len(did)
             /\ did = <<>> => errbuf = diag \o fails
     /\ Len(calls') >= Len(calls) /\ SubSeq(calls', 1, Len(calls)) = calls]_vars

\* writeIssue returns after a failed step and two steps that succeeded.
C33_Witness ==
  /\ wpc = "ret" /\ old.Number > 0
  /\ Len(did) >= 2
  /\ Messages(StepErrors) # <<>>
  /\ errbuf[Len(errbuf)].kind = "successfully"

\* ---------------------------------------------------------------------------
\* Loading a bulk-edit window (acme.go load, case modeBulk): the issues listed
\* in the window have been fetched, bulkEditStart computes the common issue and
\* the text shown.

MaxShown == 3

\* What the listed issues may look like at the remote.
FetchedIssues(n) ==
  [Number : {n}, Title : {<<"t1">>}, State : IssueStates, Assignee : Logins,
   Labels : SUBSET {<<"a">>, <<"b">>}, Milestone : {<<>>, <<"m1">>}, Closed : {FALSE}]

FetchedLists ==
  UNION {{s \in [1..n -> UNION {FetchedIssues(k) : k \in 1..n}] :
            \A k \in 1..n : s[k].Number = k} : n \in 1..MaxShown}

InitLoad ==
  /\ SyncIdle
  /\ MainIdle
  /\ RefillIdle
  /\ CacheIdle
  /\ OtherIdle
  /\ wpc = "load"
  /\ origin \in FetchedLists
  /\ old = NewIssue /\ updated = <<>> /\ isBulk = TRUE
  /\ edit = <<>> /\ addLabels = <<>> /\ removeLabels = <<>> /\ errbuf = <<>>
  /\ comment = <<>> /\ rmi = 0 /\ calls = <<>> /\ werr = FALSE
  /\ bulkIDs = <<>> /\ index = 0 /\ bfailed = FALSE /\ bulkErr = ""
  /\ did = <<>> /\ rate = [set |-> FALSE, Limit |-> 0, Remaining |-> 0]

\* base, original, err := bulkEditStartFromText(body); w.github = base
BulkLoad ==
  /\ wpc = "load"
  /\ wpc' = "bulk"
  /\ old' = bulkBase(origin)
  /\ updated' = bulkEditStart(origin)
  /\ UNCHANGED <<syncVars, mainVars, refillVars, cacheVars, otherVars, origin, isBulk, edit,
                 addLabels, removeLabels, errbuf, comment, rmi, calls, werr, bulkIDs,
                 index, bfailed, bulkErr, did, rate>>

NextLoad == BulkLoad

SpecLoad == InitLoad /\ [][NextLoad]_vars

\* The value of a field that every listed issue has, blank when they differ.
Shared(f) ==
  IF \A k \in DOMAIN origin : origin[k][f] = origin[1][f] THEN origin[1][f] ELSE <<>>

SharedLabels == {l \in origin[1].Labels : \A k \in DOMAIN origin : l \in origin[k].Labels}

\* The listed issues in every order.
Reordered ==
  {[k \in DOMAIN origin |-> origin[p[k]]] : p \in Permutations(DOMAIN origin)}

\* C34: once a bulk-edit window is loaded, the common issue holds State,
\* Assignee and Milestone only when every listed issue has that same value, and
\* as Labels the labels every listed issue carries; the header shows exactly
\* these values (the label names sorted and joined); and the common issue and
\* the header are the same for every order of the listed issues.
C34_SharedHeader ==
  wpc = "bulk" =>
    /\ old.State = Shared("State")
    /\ old.Assignee = Shared("Assignee")
    /\ old.Milestone = Shared("Milestone")
    /\ old.Labels = SharedLabels
    /\ updated.head = <<Line("State:", Shared("State")),
                        Line("Assignee:", Shared("Assignee")),
                        Line("Labels:", Join(SortStrings(SharedLabels))),
                        Line("Milestone:", Shared("Milestone"))>>
    /\ \A r \in Reordered :
         bulkBase(r) = old /\ bulkEditStart(r).head = updated.head

\* Three issues, the first two in one state and the third in another, all
\* assigned to u1, sharing label a while the first also carries b.
C34_Witness ==
  /\ wpc = "bulk"
  /\ Len(origin) = 3
  /\ origin[1].State = origin[2].State /\ origin[3].State # origin[1].State
  /\ old.State = <<>>
  /\ old.Assignee = <<"u1">>
  /\ origin[1].Labels = {<<"a">>, <<"b">>}
  /\ old.Labels = {<<"a">>}

\* ---------------------------------------------------------------------------
\* The GraphQL client: Client.graphQL of package github and Client.GraphQL of
\* internal/graphql.  Strings are sequences of words; the phrases the code
\* searches for are words of their own.

MaxSends == 3
MaxErrors == 2

\* strings.Contains(s, phrase)
Contains(s, phrase) == \E k \in DOMAIN s : s[k] = phrase

GqlQueries == {"schema", "q"}

\* vars: nil or a map.
GqlVars == {<<>>, <<"v">>}

\* Messages of the errors in a reply.
GqlMessages ==
  {<<"API", "rate limit exceeded">>, <<"was", "submitted too quickly">>,
   <<"Could not resolve">>, <<>>}

GqlErrorLists == UNION {[1..n -> GqlMessages] : n \in 0..MaxErrors}

\* What comes back for a request: no response, a response that is not 200,
\* a 200 whose body is not JSON, a 200 with data and errors.
GqlAnswers ==
  [kind : {"neterr"}, body : {<<>>}, errors : {<<>>}, data : {{}}]
  \cup [kind : {"status"}, body : {<<"403", "wait a few minutes">>, <<"502">>},
        errors : {<<>>}, data : {{}}]
  \cup [kind : {"badjson"}, body : {<<>>}, errors : {<<>>}, data : {{}}]
  \cup [kind : {"ok"}, body : {<<>>}, errors : GqlErrorLists, data : SUBSET {"f", "g"}]

NoAnswer == [kind |-> "", body |-> <<>>, errors |-> <<>>, data |-> {}]

\* The messages the client waits on, and for how long.
GqlDelay(internal, msg) ==
  IF Contains(msg, "rate limit exceeded") THEN "10m"
  ELSE IF ~internal /\ Contains(msg, "submitted too quickly") THEN "5s"
  ELSE ""

\* Whether the answer sends the pass back to Retry.
GqlRetries(internal, a) ==
  \/ a.kind = "status" /\ Contains(a.body, "wait a few minutes")
  \/ a.kind = "ok" /\ a.errors # <<>> /\ GqlDelay(internal, a.errors[1]) # ""

\* graphQL up to the label Retry: js is the marshalled query and variables.
GqlCall(internal, query, vs) ==
  /\ gql.pc = "idle"
  /\ gql' = [pc |-> "retry", internal |-> internal, query |-> query, vars |-> vs,
             js |-> <<"query", query, "variables">> \o vs,
             requests |-> <<>>, got |-> NoAnswer, slept |-> <<>>,
             reply |-> [f \in {"f", "g"} |-> 0], err |-> <<>>, returned |-> FALSE]
  /\ UNCHANGED <<syncVars, mainVars, editVars, refillVars, cacheVars, acmeVars, blinkVars,
                 printVars>>

\* One pass from the label Retry to `goto Retry` or to a return.  The body
\* reader is made from js before the schema query sets js to nil.
GqlPass(a) ==
  /\ gql.pc = "retry"
  /\ GqlRetries(gql.internal, a) => Len(gql.requests) + 1 < MaxSends
  /\ LET get == gql.query = "schema" /\ gql.vars = <<>>
         req == [method |-> IF get THEN "GET" ELSE "POST", body |-> gql.js]
         g == [gql EXCEPT !.js = IF get THEN <<>> ELSE @,
                          !.requests = Append(@, req), !.got = a]
         n == Len(g.requests)
         u == [g EXCEPT !.reply = [f \in {"f", "g"} |-> IF f \in a.data THEN n ELSE @[f]]]
     IN gql' =
          CASE a.kind = "neterr" ->
                 [g EXCEPT !.pc = "done", !.returned = TRUE, !.err = <<"no response">>]
            [] a.kind = "status" ->
                 IF Contains(a.body, "wait a few minutes")
                 THEN [g EXCEPT !.slept = Append(@, "10m")]
                 ELSE [g EXCEPT !.pc = "done", !.returned = TRUE, !.err = a.body]
            [] a.kind = "badjson" ->
                 [g EXCEPT !.pc = "done", !.returned = TRUE, !.err = <<"parsing reply:">>]
            [] OTHER ->
                 IF a.errors = <<>> THEN [u EXCEPT !.pc = "done", !.returned = TRUE]
                 ELSE IF GqlDelay(gql.internal, a.errors[1]) # ""
                 THEN [u EXCEPT !.slept = Append(@, GqlDelay(gql.internal, a.errors[1]))]
                 ELSE [u EXCEPT !.pc = "done", !.returned = TRUE,
                                !.err = <<"graphql error:">> \o a.errors[1]]
  /\ UNCHANGED <<syncVars, mainVars, editVars, refillVars, cacheVars, acmeVars, blinkVars,
                 printVars>>

InitGql == SyncIdle /\ MainIdle /\ EditIdle /\ RefillIdle /\ CacheIdle /\ OtherIdle

NextGql ==
  \/ \E internal \in BOOLEAN, query \in GqlQueries, vs \in GqlVars :
       GqlCall(internal, query, vs)
  \/ \E a \in GqlAnswers : GqlPass(a)

SpecGql == InitGql /\ [][NextGql]_vars

\* A pass of Client.graphQL has just read a 200 reply that carries errors.
GotErrors ==
  /\ gql'.pc # "idle" /\ gql' # gql
  /\ ~gql'.internal
  /\ gql'.got.kind = "ok" /\ gql'.got.errors # <<>>

\* The first error message of the reply is one of the two the client waits on.
Throttled(a) ==
  /\ a.kind = "ok" /\ a.errors # <<>>
  /\ \/ Contains(a.errors[1], "rate limit exceeded")
     \/ Contains(a.errors[1], "submitted too quickly")

\* Any other first message ends the call with an error that carries it; a
\* message the client waits on ends no call and is followed by a sleep.
GqlErrorPolicy ==
  GotErrors =>
    IF Throttled(gql'.got)
    THEN /\ gql'.pc = "retry" /\ ~gql'.returned /\ gql'.err = <<>>
         /\ Len(gql'.slept) = Len(gql.slept) + 1
    ELSE /\ gql'.pc = "done" /\ gql'.returned
         /\ gql'.err = <<"graphql error:">> \o gql'.got.errors[1]
         /\ gql'.requests = Append(gql.requests, gql'.requests[Len(gql'.requests)])
         /\ gql'.slept = gql.slept

\* The request sent after a reply the client waited on is the request that
\* was sent before.
GqlSameRequest ==
  (gql.pc = "retry" /\ ~gql.internal /\ Throttled(gql.got) /\ gql' # gql) =>
    gql'.requests[Len(gql'.requests)] = gql.requests[Len(gql.requests)]

\* C35: in Client.graphQL a 200 reply whose first error message holds "rate
\* limit exceeded" or "submitted too quickly" does not end the call: after a
\* sleep the identical request is sent again; any other first message M ends
\* the call at once with an error whose text holds M.
C35_ErrorPolicy == [][GqlErrorPolicy /\ GqlSameRequest]_vars

\* ---------------------------------------------------------------------------
\* The acme windows (src/issue/acme.go).  Every window made by newIssue,
\* newSearch, ... has a goroutine running loop(); the window "+Errors" made by
\* err() has none.  awin.show and awin.new each hold all.Mutex for their own
\* duration only, so a loop is between the two when show has returned nil.

MaxWins == 4

\* Titles a Look can ask for: the issue list and an issue.
LookTitles == {"all", "1"}

Wins == 1..Len(wins)

\* all.m[title]
Registered(title) ==
  IF \E w \in all_m : wins[w].title = title
  THEN CHOOSE w \in all_m : wins[w].title = title
  ELSE 0

\* acmeMode without arguments: dummy.look("all") has opened the issue list.
InitAcme ==
  /\ SyncIdle /\ MainIdle /\ EditIdle /\ RefillIdle /\ CacheIdle /\ GqlIdle /\ BlinkIdle
  /\ PrintIdle
  /\ wins = <<[title |-> "all", open |-> TRUE, lpc |-> "wait", arg |-> ""]>>
  /\ all_m = {1}
  /\ numwin = 1
  /\ exited = FALSE
  /\ shown = NoShow

AcmeFrame ==
  UNCHANGED <<syncVars, mainVars, editVars, refillVars, cacheVars, gql, blinkVars,
              printVars>>

\* awin.show(title), called on window w: Ctl("show") goes to w.
show(w, title) ==
  IF Registered(title) # 0
  THEN [by |-> w, found |-> Registered(title), ctl |-> w]
  ELSE shown

\* awin.new(title) with the lock held, called by window w; loop tells
\* whether the caller starts `go w.loop()` on the new window.
new(w, title, loop) ==
  /\ numwin' = numwin + 1
  /\ wins' = Append([wins EXCEPT ![w].lpc = "wait", ![w].arg = ""],
                    [title |-> title, open |-> TRUE,
                     lpc |-> IF loop THEN "wait" ELSE "none", arg |-> ""])
  /\ all_m' = IF title = "new" THEN all_m
              ELSE {x \in all_m : wins[x].title # title} \cup {Len(wins) + 1}

\* loop, case 'l': look(text) up to the return of show(title).
LookShow(w, title) ==
  /\ ~exited
  /\ w \in Wins /\ wins[w].lpc = "wait" /\ wins[w].open
  /\ shown' = show(w, title)
  /\ wins' = IF Registered(title) # 0 THEN wins
             ELSE [wins EXCEPT ![w].lpc = "look", ![w].arg = title]
  /\ UNCHANGED <<all_m, numwin, exited>>
  /\ AcmeFrame

\* look: w.newIssue(text, id) / w.newSearch("all", "") after show returned nil.
LookNew(w) ==
  /\ ~exited
  /\ w \in Wins /\ wins[w].lpc = "look"
  /\ Len(wins) < MaxWins
  /\ new(w, wins[w].arg, TRUE)
  /\ UNCHANGED <<exited, shown>>
  /\ AcmeFrame

\* loop, case 'x' with cmd == "New": createIssue.
CreateIssue(w) ==
  /\ ~exited
  /\ w \in Wins /\ wins[w].lpc = "wait" /\ wins[w].open
  /\ Len(wins) < MaxWins
  /\ new(w, "new", TRUE)
  /\ UNCHANGED <<exited, shown>>
  /\ AcmeFrame

\* awin.err up to the return of show("+Errors").
ErrShow(w) ==
  /\ ~exited
  /\ w \in Wins /\ wins[w].lpc = "wait" /\ wins[w].open
  /\ shown' = show(w, "+Errors")
  /\ wins' = IF Registered("+Errors") # 0 THEN wins
             ELSE [wins EXCEPT ![w].lpc = "err", ![w].arg = "+Errors"]
  /\ UNCHANGED <<all_m, numwin, exited>>
  /\ AcmeFrame

\* awin.err: w1 = w.new("+Errors"); no loop is started for w1.
ErrNew(w) ==
  /\ ~exited
  /\ w \in Wins /\ wins[w].lpc = "err"
  /\ Len(wins) < MaxWins
  /\ new(w, "+Errors", FALSE)
  /\ UNCHANGED <<exited, shown>>
  /\ AcmeFrame

\* The window is deleted (Del, or closed in acme): its event channel closes.
Del(w) ==
  /\ ~exited
  /\ w \in Wins /\ wins[w].open
  /\ wins' = [wins EXCEPT ![w].open = FALSE]
  /\ UNCHANGED <<all_m, numwin, exited, shown>>
  /\ AcmeFrame

\* loop's range ends; defer w.exit().
exit(w) ==
  /\ ~exited
  /\ w \in Wins /\ wins[w].lpc = "wait" /\ ~wins[w].open
  /\ wins' = [wins EXCEPT ![w].lpc = "gone"]
  /\ all_m' = IF Registered(wins[w].title) = w THEN all_m \ {w} ELSE all_m
  /\ numwin' = numwin - 1
  /\ exited' = (numwin - 1 = 0)
  /\ UNCHANGED shown
  /\ AcmeFrame

NextAcme ==
  \/ \E w \in 1..MaxWins, title \in LookTitles : LookShow(w, title)
  \/ \E w \in 1..MaxWins : LookNew(w)
  \/ \E w \in 1..MaxWins : CreateIssue(w)
  \/ \E w \in 1..MaxWins : ErrShow(w)
  \/ \E w \in 1..MaxWins : ErrNew(w)
  \/ \E w \in 1..MaxWins : Del(w)
  \/ \E w \in 1..MaxWins : exit(w)

SpecAcme == InitAcme /\ [][NextAcme]_vars

\* The open windows that carry the title.
OpenWith(title) == {w \in Wins : wins[w].open /\ wins[w].title = title}

\* C36: whatever the interleaving of the windows' loops, no two open windows
\* carry the same looked-for title, and a show that finds a window sends
\* Ctl("show") to the window it found.
C36_NoDuplicateWindows ==
  /\ \A title \in LookTitles : Cardinality(OpenWith(title)) <= 1
  /\ shown # NoShow => shown.ctl = shown.found

\* The windows whose loop has not run exit(): those still looping and those
\* that never had a loop.
NotExited == {w \in Wins : wins[w].lpc # "gone"}

\* The windows whose loop is still to end.
Looping == {w \in Wins : wins[w].lpc \notin {"gone", "none"}}

\* exit(w) takes from all.m at most the entry of w.
ExitRemovesOwn ==
  \A w \in Wins :
    (wins[w].lpc # "gone" /\ wins'[w].lpc = "gone") => all_m \ {w} \subseteq all_m'

\* The count and the exit as the windows' loops leave them.
ExitCounts ==
  /\ numwin = Cardinality(NotExited)
  /\ exited <=> Looping = {}
  /\ (\A w \in Wins : ~wins[w].open) /\ Looping = {} => exited

\* C37: all.numwin is the number of windows made by new() whose loop has not
\* run exit(); the process has exited exactly when no window's loop is left,
\* so once every window is closed and every loop has ended it has exited, also
\* when a "+Errors" window was made; and exit() removes only its own entry.
C37_ExitOnLastClose == [][ExitCounts' /\ ExitRemovesOwn]_vars

\* ---------------------------------------------------------------------------
\* The busy indicator (src/issue/acme.go blinker) and the commands that start
\* it, load and put.  A send and a receive on the unbuffered channel c are one
\* step taken by both sides.

MaxTicks == 3

Modes == {"single", "create", "milestone", "query", "bulk"}

\* load, mode by mode: the blinker is started, stopped once the remote call
\* has returned, and the window is marked clean unless the call failed.
loadPath(mode, fail) ==
  IF mode = "create" THEN <<"clean">>
  ELSE <<"start", "stop">> \o (IF fail THEN <<>> ELSE <<"clean">>)

\* put: stop is deferred; a single or new issue that was written is loaded.
putPath(mode, fail, loadFail) ==
  <<"start">>
  \o (IF mode \in {"single", "create"} /\ ~fail THEN loadPath("single", loadFail) ELSE <<>>)
  \o <<"stop">>

NewBlinker ==
  [gpc |-> "select", dirty |-> FALSE, stops |-> 0, nctl |-> 0, last |-> "",
   returned |-> FALSE, mark |-> 0, left |-> FALSE, was |-> wdirty]

InitBlink ==
  /\ SyncIdle /\ MainIdle /\ EditIdle /\ RefillIdle /\ CacheIdle /\ GqlIdle /\ AcmeIdle
  /\ PrintIdle
  /\ blinkers = <<>> /\ todo = <<>> /\ spc = "" /\ ticks = 0 /\ bpath = ""
  /\ wdirty \in BOOLEAN

BlinkFrame ==
  UNCHANGED <<syncVars, mainVars, editVars, refillVars, cacheVars, gql, acmeVars, printVars>>

\* loop: cmd == "Get", or `go w.load()` of a new window.
Load(mode, fail) ==
  /\ bpath = ""
  /\ bpath' = "load"
  /\ todo' = loadPath(mode, fail)
  /\ UNCHANGED <<blinkers, spc, wdirty, ticks>>
  /\ BlinkFrame

\* loop: cmd == "Put".
Put(mode, fail, loadFail) ==
  /\ bpath = ""
  /\ bpath' = "put"
  /\ todo' = putPath(mode, fail, loadFail)
  /\ UNCHANGED <<blinkers, spc, wdirty, ticks>>
  /\ BlinkFrame

\* stop := w.blinker()
BlinkerStart ==
  /\ todo # <<>> /\ Head(todo) = "start"
  /\ blinkers' = Append(blinkers, NewBlinker)
  /\ todo' = Tail(todo)
  /\ UNCHANGED <<spc, wdirty, ticks, bpath>>
  /\ BlinkFrame

\* w.Ctl("clean") of load
CtlClean ==
  /\ todo # <<>> /\ Head(todo) = "clean"
  /\ wdirty' = FALSE
  /\ todo' = Tail(todo)
  /\ UNCHANGED <<blinkers, spc, ticks, bpath>>
  /\ BlinkFrame

\* The goroutine that ignores its dirty flag when told to stop.
CleanNever(b) ==
  /\ b \in DOMAIN blinkers /\ blinkers[b].gpc = "got"
  /\ blinkers' = [blinkers EXCEPT ![b].gpc = "reply"]
  /\ UNCHANGED <<todo, spc, wdirty, ticks, bpath>>
  /\ BlinkFrame

\* case <-t.C
Tick(b) ==
  /\ b \in DOMAIN blinkers /\ blinkers[b].gpc = "select"
  /\ ticks < MaxTicks
  /\ ticks' = ticks + 1
  /\ blinkers' = [blinkers EXCEPT ![b].dirty = ~@, ![b].nctl = @ + 1,
                                  ![b].last = IF blinkers[b].dirty THEN "clean" ELSE "dirty"]
  /\ wdirty' = ~blinkers[b].dirty
  /\ UNCHANGED <<todo, spc, bpath>>
  /\ BlinkFrame

\* The blinker the next stop() belongs to: the latest one not yet stopped.
Innermost ==
  CHOOSE b \in DOMAIN blinkers :
    /\ blinkers[b].stops = 0
    /\ \A x \in DOMAIN blinkers : blinkers[x].stops = 0 => x <= b

\* stop: c <- struct{}{}, received by the goroutine's case <-c.
StopSend ==
  /\ todo # <<>> /\ Head(todo) = "stop" /\ spc = ""
  /\ \E b \in DOMAIN blinkers : blinkers[b].stops = 0
  /\ blinkers[Innermost].gpc = "select"
  /\ blinkers' = [blinkers EXCEPT ![Innermost].gpc = "got", ![Innermost].stops = @ + 1]
  /\ spc' = "sent"
  /\ UNCHANGED <<todo, wdirty, ticks, bpath>>
  /\ BlinkFrame

\* case <-c: if dirty { w.Ctl("clean") }
Clean(b) ==
  /\ b \in DOMAIN blinkers /\ blinkers[b].gpc = "got"
  /\ blinkers' = [blinkers EXCEPT ![b].gpc = "reply",
                                  ![b].nctl = IF blinkers[b].dirty THEN @ + 1 ELSE @,
                                  ![b].last = IF blinkers[b].dirty THEN "clean" ELSE @]
  /\ wdirty' = IF blinkers[b].dirty THEN FALSE ELSE wdirty
  /\ UNCHANGED <<todo, spc, ticks, bpath>>
  /\ BlinkFrame

\* The goroutine's c <- struct{}{} and return, received by stop's <-c.
StopRecv(b) ==
  /\ spc = "sent"
  /\ b \in DOMAIN blinkers /\ blinkers[b].gpc = "reply"
  /\ blinkers' = [blinkers EXCEPT ![b].gpc = "gone", ![b].returned = TRUE,
                                  ![b].mark = blinkers[b].nctl, ![b].left = wdirty]
  /\ spc' = ""
  /\ todo' = Tail(todo)
  /\ UNCHANGED <<wdirty, ticks, bpath>>
  /\ BlinkFrame

MaxBlinkers == 2

NextBlink ==
  \/ \E mode \in Modes, fail \in BOOLEAN : Load(mode, fail)
  \/ \E mode \in Modes, fail \in BOOLEAN, loadFail \in BOOLEAN : Put(mode, fail, loadFail)
  \/ BlinkerStart
  \/ CtlClean
  \/ \E b \in 1..MaxBlinkers : Tick(b)
  \/ StopSend
  \/ \E b \in 1..MaxBlinkers : Clean(b)
  \/ \E b \in 1..MaxBlinkers : StopRecv(b)

\* The Go scheduler runs every goroutine that can take a step.
SpecBlink ==
  /\ InitBlink
  /\ [][NextBlink]_vars
  /\ WF_vars(BlinkerStart) /\ WF_vars(CtlClean) /\ WF_vars(StopSend)
  /\ WF_vars(\E b \in 1..MaxBlinkers : Clean(b))
  /\ WF_vars(\E b \in 1..MaxBlinkers : StopRecv(b))

\* stop() is called at most once for a blinker, and once for each when the
\* command has run to its end.
StoppedOnce ==
  /\ \A b \in DOMAIN blinkers : blinkers[b].stops <= 1
  /\ bpath # "" /\ todo = <<>> =>
       \A b \in DOMAIN blinkers : blinkers[b].stops = 1 /\ blinkers[b].returned

\* After stop() has returned the goroutine has sent no further message.
SilentAfterStop ==
  \A b \in DOMAIN blinkers :
    blinkers[b].returned => blinkers[b].gpc = "gone" /\ blinkers[b].nctl = blinkers[b].mark

\* A stop() that has been called returns.
StopReturns ==
  \A n \in 1..4 :
    (Len(todo) = n /\ Head(todo) = "stop") ~> (Len(todo) < n)

\* The original statement of C38: stop() is called once for every blinker and
\* returns, the goroutine is silent afterwards, and the window is clean when
\* stop() returns.
C38_StopLeavesClean ==
  /\ [](StoppedOnce /\ SilentAfterStop)
  /\ [](\A b \in DOMAIN blinkers : blinkers[b].returned => ~blinkers[b].left)
  /\ StopReturns

\* C38: stop() is called exactly once for every blinker load and put start,
\* and it returns; after that the goroutine sends no "dirty" or "clean"; the
\* last message the goroutine sent, if it sent any, is "clean"; and the
\* window is clean when stop() returns unless the goroutine saw no tick (the
\* window keeps the mark it had) or it is load's blinker inside put's.
C38_StopHandshake ==
  /\ [](StoppedOnce /\ SilentAfterStop)
  /\ [](\A b \in DOMAIN blinkers :
          blinkers[b].returned =>
            /\ blinkers[b].last # "dirty"
            /\ blinkers[b].left => blinkers[b].nctl = 0 \/ b > 1)
  /\ StopReturns

\* put on a dirty window has loaded the issue: load's blinker saw one tick
\* and was told to stop while dirty, put's blinker saw none.
C38_Witness ==
  /\ bpath = "put" /\ todo = <<>>
  /\ Len(blinkers) = 2
  /\ blinkers[2].returned /\ blinkers[2].nctl = 2 /\ blinkers[2].last = "clean"
  /\ blinkers[1].returned /\ blinkers[1].nctl = 0 /\ blinkers[1].was

\* ---------------------------------------------------------------------------
\* Creation probes: the rows refill derives from an issue payload, and how
\* dashActions (src/unnamed/part_004) reads them.

\* The History row h was derived from the RawJSON row m.
DerivedFrom(h, m) == IF legacy THEN h.ID[1] \div 10 = m.RowID ELSE h.ID[1] = m.URL

\* dashActions' switch on h.Action, for the kinds about creation, milestone
\* and state.
dashActions(h) ==
  CASE h.Action = "issue" -> <<[op |-> "opCreate", issue |-> h.Issue, text |-> ""]>>
    [] h.Action \in {"milestone?", "milestoned"} ->
         IF h.Text # "" THEN <<[op |-> "opMilestone", issue |-> h.Issue, text |-> h.Text]>>
         ELSE <<>>
    [] h.Action = "demilestoned" ->
         <<[op |-> "opDemilestone", issue |-> h.Issue, text |-> h.Text]>>
    [] h.Action \in {"close?", "closed"} ->
         <<[op |-> "opClose", issue |-> h.Issue, text |-> ""]>>
    [] h.Action = "reopened" -> <<[op |-> "opReopen", issue |-> h.Issue, text |-> ""]>>
    [] OTHER -> <<>>

\* C39: after a completed refill, the rows derived from an issue payload are
\* the creation row, an "assign?" row iff the assignee is set, a "milestone?"
\* row iff the milestone is set and a "close?" row iff the state is not open;
\* the "assign?" row's Text is the assignee's login, the "milestone?" row's
\* Text is the milestone's title, and that title is the milestone dashActions
\* gives the issue.
C39_CreationProbes ==
  \A a \in 1..Len(prev) : \A m \in prev[a].raw :
    (m.Type = Issues /\ m.JSON.sub # "badjson") =>
      LET rows(act) == {h \in prev[a].table : DerivedFrom(h, m) /\ h.Action = act}
      IN /\ Cardinality(rows("issue")) = 1
         /\ rows("assign?") # {} <=> m.JSON.assignee # ""
         /\ \A h \in rows("assign?") : h.Text = m.JSON.assignee
         /\ rows("milestone?") # {} <=> m.JSON.milestone # ""
         /\ \A h \in rows("milestone?") :
              /\ h.Text = m.JSON.milestone
              /\ dashActions(h) = <<[op |-> "opMilestone", issue |-> h.Issue,
                                     text |-> m.JSON.milestone]>>
         /\ rows("close?") # {} <=> m.JSON.sub # "open"

\* ---------------------------------------------------------------------------
\* printIssue after the original report (src/issue/issue.go:400-502): the
\* comments and the events are listed page by page, each rendered as a block
\* that starts with its creation time in RFC3339, the blocks are sorted as
\* strings and written without that first line.  A string is a sequence of
\* character codes.

MaxListed == 2
MaxInstant == 2

\* PerPage: 100 in the code.
ListPerPage == 1

Instants == 0..MaxInstant

\* The comments and the events an issue may have.
ListedComments == [kind : {"comment"}, at : Instants, who : {1, 2}]

ListedEvents == [kind : {"closed", "mentioned"}, at : Instants, who : {1}]

SeqsUpTo(S, n) == UNION {[1..k -> S] : k \in 0..n}

\* getTime(x).Format(time.RFC3339): x.Local() is the wall clock of the
\* process's zone followed by the zone's offset; in the zone "dst" the
\* offset is two hours before instant 1 and one hour from then on.
Format(at, zone) ==
  IF zone = "utc" THEN <<at, 0>>
  ELSE LET off == IF at < 1 THEN 2 ELSE 1 IN <<at + off, off>>

\* The text of a block after its first line: "Comment by ...", "* ...
\* closed", nothing for an event that is ignored.
BlockText(x) ==
  CASE x.kind = "comment" -> <<2, x.who>>
    [] x.kind = "closed" -> <<1, x.who>>
    [] OTHER -> <<>>

\* buf.String(): the time, a newline, the text.
Block(x, zone) == [s |-> Format(x.at, zone) \o <<0>> \o BlockText(x), src |-> x]

\* s < t for strings
RECURSIVE SeqLess(_, _)
SeqLess(s, t) ==
  IF t = <<>> THEN FALSE
  ELSE IF s = <<>> THEN TRUE
  ELSE IF Head(s) = Head(t) THEN SeqLess(Tail(s), Tail(t))
  ELSE Head(s) < Head(t)

\* sort.Strings(output)
RECURSIVE SortOutput(_)
SortOutput(o) ==
  IF o = <<>> THEN <<>>
  ELSE LET k == CHOOSE a \in DOMAIN o : \A b \in DOMAIN o : ~SeqLess(o[b].s, o[a].s)
       IN <<o[k]>> \o SortOutput([n \in 1..(Len(o) - 1) |-> IF n < k THEN o[n] ELSE o[n + 1]])

\* The page the service answers with: the items and resp.NextPage.
ListPage(items, n) ==
  [list |-> SubSeq(items, (n - 1) * ListPerPage + 1,
                   IF n * ListPerPage < Len(items) THEN n * ListPerPage ELSE Len(items)),
   NextPage |-> IF n * ListPerPage < Len(items) THEN n + 1 ELSE 0]

InitPrint ==
  /\ SyncIdle /\ MainIdle /\ EditIdle /\ RefillIdle /\ CacheIdle
  /\ GqlIdle /\ AcmeIdle /\ BlinkIdle
  /\ listing \in [coms : SeqsUpTo(ListedComments, MaxListed),
                  evs : SeqsUpTo(ListedEvents, MaxListed), zone : {"utc", "dst"}]
  /\ ppc = "comments"
  /\ ppage = 1
  /\ output = <<>>
  /\ printed = <<>>

PrintFrame ==
  UNCHANGED <<syncVars, mainVars, editVars, refillVars, cacheVars, gql, acmeVars, blinkVars,
              listing>>

\* One round of a listing loop over the items, going to pc next when the
\* last page has been read.
ListRound(items, ok, next) ==
  LET r == ListPage(items, ppage)
  IN IF ~ok THEN ppc' = "failed" /\ UNCHANGED <<ppage, output>>
     ELSE /\ output' = output \o [k \in 1..Len(r.list) |-> Block(r.list[k], listing.zone)]
          /\ IF r.NextPage < ppage
             THEN ppc' = next /\ ppage' = 1
             ELSE ppage' = r.NextPage /\ UNCHANGED ppc

\* client.Issues.ListComments and the loop over list
ListComments(ok) ==
  /\ ppc = "comments"
  /\ ListRound(listing.coms, ok, "events")
  /\ UNCHANGED printed
  /\ PrintFrame

\* client.Issues.ListIssueEvents and the loop over list
ListIssueEvents(ok) ==
  /\ ppc = "events"
  /\ ListRound(listing.evs, ok, "sort")
  /\ UNCHANGED printed
  /\ PrintFrame

\* sort.Strings(output); each block is written from after its first newline.
SortAndWrite ==
  /\ ppc = "sort"
  /\ printed' = [k \in 1..Len(output) |->
                   [text |-> BlockText(SortOutput(output)[k].src),
                    src |-> SortOutput(output)[k].src]]
  /\ ppc' = "done"
  /\ UNCHANGED <<ppage, output>>
  /\ PrintFrame

NextPrint ==
  \/ \E ok \in BOOLEAN : ListComments(ok)
  \/ \E ok \in BOOLEAN : ListIssueEvents(ok)
  \/ SortAndWrite

SpecPrint == InitPrint /\ [][NextPrint]_vars

\* How often x occurs in the sequence s.
Occurs(s, x) == Cardinality({k \in DOMAIN s : s[k] = x})

Sources == [k \in DOMAIN printed |-> printed[k].src]

\* C40: the blocks printIssue has written are in non-decreasing order of
\* creation time, blocks of one creation time in lexicographic order of their
\* text, and every comment (and event) of every page is there exactly as
\* often as it was listed.
C40_RenderingOrder ==
  ppc = "done" =>
    /\ \A j, k \in DOMAIN printed :
         j < k =>
           /\ printed[j].src.at <= printed[k].src.at
           /\ printed[j].src.at = printed[k].src.at =>
                ~SeqLess(printed[k].text, printed[j].text)
    /\ \A x \in ListedComments \cup ListedEvents :
         Occurs(Sources, x) = Occurs(listing.coms \o listing.evs, x)

====
